---- MODULE Spec2Model ----
(***************************************************************************)
(* Model of mmushell/exporter.py: the physical-memory index (interval      *)
(* maps and ELFDump), the page-table walker (AddressTranslator and its     *)
(* architecture adapters), the factory (get_virtspace) and the virtual     *)
(* ELF writer (export_virtual_memory_elf), driven by main's loop over the  *)
(* MMU snapshot list.                                                      *)
(*                                                                         *)
(* Scaling.  An address unit of the model is one page-table entry word.    *)
(* A page holds EntriesPerTable = 2 words, so every page-table level       *)
(* indexes one address bit instead of 9 or 10, and the page offset has     *)
(* PageShift = 1 bit instead of 12.  A page-table entry keeps its flag     *)
(* bits at the positions of the source where they fit in FlagBits bits;    *)
(* the page-size bit (source bit 7) and the NX bit (source bit 63) are     *)
(* moved to PSBit and NXBit.  Physical frame numbers have PfnBits bits.    *)
(* Python exceptions are modelled as an error string in the result of the  *)
(* operator that raises ("" means no exception).                           *)
(***************************************************************************)
EXTENDS Integers, Sequences, FiniteSets, TLC

\* ------------------------------------------------------------------------
\* Bounds of the model
\* ------------------------------------------------------------------------
MaxProcs == 2

\* ------------------------------------------------------------------------
\* Scaled machine geometry
\* ------------------------------------------------------------------------
PageShift == 1
EntriesPerTable == 2
FlagBits == 6
PfnBits == 3
PSBit == 5
NXBit == 9
Phys32 == 4
MphyClamp == 5

\* ------------------------------------------------------------------------
\* Python helpers
\* ------------------------------------------------------------------------
Pow2(n) == 2 ^ n

Shr(e, n) == e \div Pow2(n)

Shl(e, n) == e * Pow2(n)

Bit(e, i) == (Shr(e, i) % 2) = 1

Min(a, b) == IF a <= b THEN a ELSE b

\* F applied to the value of e: e is evaluated once, however often F uses
\* its argument (a statement that assigns a local before the code that
\* reads it)
Bind(e, F(_)) == CHOOSE r \in {F(x) : x \in {e}} : TRUE

RECURSIVE BitOr(_, _)
BitOr(a, b) ==
    IF a = 0 THEN b
    ELSE IF b = 0 THEN a
    ELSE (IF (a % 2 = 1) \/ (b % 2 = 1) THEN 1 ELSE 0) + 2 * BitOr(a \div 2, b \div 2)

\* seq[idx] with Python's 0-based index, negative indexes counting from the end
PyIndex(seq, idx) == IF idx < 0 THEN seq[Len(seq) + idx + 1] ELSE seq[idx + 1]

\* seq[lo:hi] with Python's slice truncation
PySlice(seq, lo, hi) == SubSeq(seq, lo + 1, Min(hi, Len(seq)))

\* lexicographic order of Python tuples of integers (and nested tuples, flattened)
RECURSIVE TupleLess(_, _)
TupleLess(a, b) ==
    IF Len(a) = 0 THEN Len(b) > 0
    ELSE IF Len(b) = 0 THEN FALSE
    ELSE IF a[1] # b[1] THEN a[1] < b[1]
    ELSE TupleLess(Tail(a), Tail(b))

\* insert x into the sorted list s after every element that is not greater (stable)
RECURSIVE InsertSorted(_, _)
InsertSorted(s, x) ==
    IF Len(s) = 0 THEN <<x>>
    ELSE IF TupleLess(x, s[1]) THEN <<x>> \o s
    ELSE <<s[1]>> \o InsertSorted(Tail(s), x)

\* the first n elements of s, sorted
RECURSIVE sort_prefix(_, _)
sort_prefix(s, n) ==
    IF n = 0 THEN <<>>
    ELSE Bind(sort_prefix(s, n - 1), LAMBDA r : InsertSorted(r, s[n]))

\* sorted(list) for a list of integer tuples
sorted(s) == Bind(s, LAMBDA v : sort_prefix(v, Len(v)))

\* bisect.bisect(keys, x) on a sorted list: the number of keys <= x
bisect(keys, x) == Cardinality({i \in 1..Len(keys) : keys[i] <= x})

\* int.to_bytes(length, byteorder) and its inverse
RECURSIVE LittleBytes(_, _)
LittleBytes(n, length) ==
    IF length = 0 THEN <<>>
    ELSE <<n % 256>> \o LittleBytes(n \div 256, length - 1)

Reverse(s) == [i \in 1..Len(s) |-> s[Len(s) + 1 - i]]

to_bytes(n, length, byteorder) ==
    IF byteorder = "little" THEN LittleBytes(n, length)
    ELSE Reverse(LittleBytes(n, length))

RECURSIVE FromLittle(_)
FromLittle(b) == IF Len(b) = 0 THEN 0 ELSE b[1] + 256 * FromLittle(Tail(b))

from_bytes(b, byteorder) ==
    IF byteorder = "little" THEN FromLittle(b) ELSE FromLittle(Reverse(b))

\* ------------------------------------------------------------------------
\* Interval maps.  A map is the list of its intervals <<begin, end>> or
\* <<begin, end, data>>: keys[i] is the first component, values[i] the rest.
\* ------------------------------------------------------------------------
Keys(im) == [i \in 1..Len(im) |-> im[i][1]]

\* a contains that takes a request ending exactly at the interval's end
IMSimple_contains_inclusive(im, x, size) ==
    LET idx == bisect(Keys(im), x) - 1
        begin == PyIndex(im, idx)[1]
        end == PyIndex(im, idx)[2]
    IN  IF ~(begin <= x /\ x < end) \/ x + size > end THEN -1 ELSE x - begin

\* IMSimple.contains: -1 on a miss
IMSimple_contains(im, x, size) ==
    LET idx == bisect(Keys(im), x) - 1
        begin == PyIndex(im, idx)[1]
        end == PyIndex(im, idx)[2]
    IN  IF ~(begin <= x /\ x < end) \/ x + size >= end THEN -1 ELSE x - begin

\* IMData.contains: the interval's data, -1 on a miss
IMData_contains(im, x, size) ==
    LET idx == bisect(Keys(im), x) - 1
        begin == PyIndex(im, idx)[1]
        end == PyIndex(im, idx)[2]
        data == PyIndex(im, idx)[3]
    IN  IF ~(begin <= x /\ x < end) \/ x + size >= end THEN -1 ELSE data

\* IMOffsets.__getitem__: -1 on a miss
IMOffsets_getitem(im, x) ==
    LET idx == bisect(Keys(im), x) - 1
        begin == PyIndex(im, idx)[1]
        end == PyIndex(im, idx)[2]
        data == PyIndex(im, idx)[3]
    IN  IF begin <= x /\ x < end THEN x - begin + data ELSE -1

\* the while loop of IMOffsets.contains; falling out of the loop returns None
RECURSIVE IMOffsets_contains_loop(_, _, _, _, _, _)
IMOffsets_contains_loop(im, size, start, remaining, idx, intervals) ==
    IF ~(idx < Len(im)) THEN [none |-> TRUE, size |-> 0, intervals |-> <<>>]
    ELSE LET begin == im[idx + 1][1]
             end == im[idx + 1][2]
             data == im[idx + 1][3]
             interval_size == Min(end - begin, remaining)
             intervals2 == Append(intervals, <<start, interval_size, data>>)
         IN  IF begin # start
             THEN [none |-> FALSE, size |-> size - remaining, intervals |-> intervals]
             ELSE IF remaining - interval_size = 0
             THEN [none |-> FALSE, size |-> size, intervals |-> intervals2]
             ELSE IMOffsets_contains_loop(im, size, start + interval_size,
                                          remaining - interval_size, idx + 1, intervals2)

\* IMOffsets.contains: [none, size, intervals]; none is TRUE when the method
\* returns None instead of a pair
IMOffsets_contains(im, x, size) ==
    LET idx == bisect(Keys(im), x) - 1
        begin == PyIndex(im, idx)[1]
        end == PyIndex(im, idx)[2]
        data == PyIndex(im, idx)[3]
        intervals == << <<x, Min(end - x, size), x - begin + data>> >>
    IN  IF ~(begin <= x /\ x < end)
        THEN [none |-> FALSE, size |-> 0, intervals |-> <<>>]
        ELSE IF end - x >= size
        THEN [none |-> FALSE, size |-> size, intervals |-> intervals]
        ELSE IMOffsets_contains_loop(im, size, end, size - (end - x), idx + 1, intervals)

\* ------------------------------------------------------------------------
\* ELFDump
\* ------------------------------------------------------------------------
\* the for loop of _compact_intervals_simple over intervals[i..]
RECURSIVE compact_simple_loop(_, _, _, _, _)
compact_simple_loop(intervals, i, prev_begin, prev_end, fused) ==
    IF i > Len(intervals)
    THEN LET begin == intervals[Len(intervals)][1]
             end == intervals[Len(intervals)][2]
         IN  IF prev_begin # begin
             THEN Append(fused, <<prev_begin, prev_end>>)
             ELSE Append(fused, <<begin, end>>)
    ELSE LET begin == intervals[i][1]
             end == intervals[i][2]
         IN  IF prev_end = begin
             THEN compact_simple_loop(intervals, i + 1, prev_begin, end, fused)
             ELSE compact_simple_loop(intervals, i + 1, begin, end,
                                      Append(fused, <<prev_begin, prev_end>>))

\* a fusion that closes a run after its second interval
RECURSIVE compact_simple_pairs_loop(_, _)
compact_simple_pairs_loop(intervals, i) ==
    IF i > Len(intervals) THEN <<>>
    ELSE IF i < Len(intervals) /\ intervals[i][2] = intervals[i + 1][1]
    THEN << <<intervals[i][1], intervals[i + 1][2]>> >>
         \o compact_simple_pairs_loop(intervals, i + 2)
    ELSE << <<intervals[i][1], intervals[i][2]>> >>
         \o compact_simple_pairs_loop(intervals, i + 1)

compact_intervals_simple_pairs(intervals) ==
    IF Len(intervals) = 0 THEN [err |-> "UnboundLocalError", list |-> <<>>]
    ELSE [err |-> "", list |-> compact_simple_pairs_loop(intervals, 1)]

\* ELFDump._compact_intervals_simple; an empty list leaves the loop variable
\* begin unbound at line 523
_compact_intervals_simple(intervals) ==
    IF Len(intervals) = 0 THEN [err |-> "UnboundLocalError", list |-> <<>>]
    ELSE [err |-> "", list |-> Tail(compact_simple_loop(intervals, 1, -1, -1, <<>>))]

\* the for loop of _compact_intervals over intervals[i..]
RECURSIVE compact_loop(_, _, _, _, _, _)
compact_loop(intervals, i, prev_begin, prev_end, prev_phy, fused) ==
    IF i > Len(intervals)
    THEN LET last == intervals[Len(intervals)]
         IN  IF prev_begin # last[1]
             THEN Append(fused, <<prev_begin, prev_end, prev_phy>>)
             ELSE Append(fused, last)
    ELSE LET begin == intervals[i][1]
             end == intervals[i][2]
             phy == intervals[i][3]
         IN  IF prev_end = begin /\ prev_phy + (prev_end - prev_begin) = phy
             THEN compact_loop(intervals, i + 1, prev_begin, end, prev_phy, fused)
             ELSE compact_loop(intervals, i + 1, begin, end, phy,
                               Append(fused, <<prev_begin, prev_end, prev_phy>>))

\* ELFDump._compact_intervals
_compact_intervals(intervals) ==
    IF Len(intervals) = 0 THEN [err |-> "UnboundLocalError", list |-> <<>>]
    ELSE [err |-> "", list |-> Tail(compact_loop(intervals, 1, -1, -1, -1, <<>>))]

\* the segment loop of ELFDump.__read_elf_file: a LOAD segment with file
\* bytes is RAM, one without is a memory-mapped device
RECURSIVE p2o_list(_)
p2o_list(segms) ==
    IF Len(segms) = 0 THEN <<>>
    ELSE LET segm == segms[1]
             r_start == segm.p_vaddr
             r_end == r_start + segm.p_memsz
         IN  (IF segm.p_filesz # 0 THEN << <<r_start, r_end, segm.p_offset>> >> ELSE <<>>)
             \o p2o_list(Tail(segms))

RECURSIVE o2p_list(_)
o2p_list(segms) ==
    IF Len(segms) = 0 THEN <<>>
    ELSE LET segm == segms[1]
             r_start == segm.p_vaddr
             r_end == r_start + segm.p_memsz
         IN  (IF segm.p_filesz # 0
              THEN << <<segm.p_offset, segm.p_offset + (r_end - r_start), r_start>> >>
              ELSE <<>>)
             \o o2p_list(Tail(segms))

RECURSIVE p2mmd_list(_)
p2mmd_list(segms) ==
    IF Len(segms) = 0 THEN <<>>
    ELSE LET segm == segms[1]
             r_start == segm.p_vaddr
             r_end == r_start + segm.p_memsz
         IN  (IF segm.p_filesz # 0 THEN <<>> ELSE << <<r_start, r_end>> >>)
             \o p2mmd_list(Tail(segms))

\* ELFDump.__init__ / __read_elf_file: the physical index built from the
\* dump's LOAD segments, or the exception that ends the load
ELFDump(segms, buf, md) ==
    LET p2o_c == _compact_intervals(p2o_list(segms))
        o2p_c == _compact_intervals(o2p_list(segms))
        mmd_c == _compact_intervals_simple(p2mmd_list(segms))
        err == IF p2o_c.err # "" THEN p2o_c.err
               ELSE IF o2p_c.err # "" THEN o2p_c.err
               ELSE mmd_c.err
    IN  [err |-> err,
         machine_data |-> md,
         elf_buf |-> buf,
         p2o |-> IF err = "" THEN sorted(p2o_c.list) ELSE <<>>,
         o2p |-> IF err = "" THEN sorted(o2p_c.list) ELSE <<>>,
         p2mmd |-> IF err = "" THEN sorted(mmd_c.list) ELSE <<>>]

\* the TypeError of None[0] and the one of unpacking None
NotSubscriptable == "TypeError: 'NoneType' object is not subscriptable"

CannotUnpack == "TypeError: cannot unpack non-iterable NoneType object"

\* ELFDump.in_ram; a None from contains makes the subscript raise TypeError
in_ram(phy, paddr, size) ==
    LET c == IMOffsets_contains(phy.p2o, paddr, size)
    IN  [err |-> IF c.none THEN NotSubscriptable ELSE "", val |-> ~c.none /\ c.size = size]

\* ELFDump.in_mmd
in_mmd(phy, paddr, size) == IMSimple_contains(phy.p2mmd, paddr, size) # -1

\* ELFDump.get_data_raw
get_data_raw(phy, offset, size) == PySlice(phy.elf_buf, offset, offset + size)

\* a concatenation that reads the buffer at the physical address of each
\* interval instead of its file offset
RECURSIVE get_data_concat_addr(_, _)
get_data_concat_addr(phy, intervals) ==
    IF Len(intervals) = 0 THEN <<>>
    ELSE PySlice(phy.elf_buf, intervals[1][1], intervals[1][1] + intervals[1][2])
         \o get_data_concat_addr(phy, Tail(intervals))

\* the concatenation loop of ELFDump.get_data
RECURSIVE get_data_concat(_, _)
get_data_concat(phy, intervals) ==
    IF Len(intervals) = 0 THEN <<>>
    ELSE PySlice(phy.elf_buf, intervals[1][3], intervals[1][3] + intervals[1][2])
         \o get_data_concat(phy, Tail(intervals))

\* ELFDump.get_data; a None from contains makes the unpacking raise TypeError
get_data(phy, paddr, size) ==
    LET c == IMOffsets_contains(phy.p2o, paddr, size)
    IN  IF c.none THEN [err |-> CannotUnpack, data |-> <<>>]
        ELSE IF c.size # size THEN [err |-> "", data |-> <<>>]
        ELSE [err |-> "", data |-> get_data_concat(phy, c.intervals)]

\* ------------------------------------------------------------------------
\* Architecture adapters
\* ------------------------------------------------------------------------
total_levels(cls) ==
    CASE cls = "IntelIA32" -> 2
      [] cls = "IntelAMD64" -> 4
      [] cls = "RISCVSV32" -> 2
      [] cls = "RISCVSV39" -> 3

\* shifts[lvl], lvl counted from 0: the last level indexes the address bit
\* PageShift, every level above it one bit more
shifts(cls, lvl) == PageShift + (total_levels(cls) - 1 - lvl)

\* table_sizes[lvl]: one page at every level
table_sizes(cls, lvl) == EntriesPerTable

\* IntelAMD64.prefix: the bits from the top implemented address bit upwards
prefix(cls) == IF cls = "IntelAMD64" THEN 240 ELSE 0

\* the position in an entry of physical address bit s
EntryShift(s) == FlagBits + (s - PageShift)

\* the frame-number field of an entry: (entry >> sh) & ((1 << width) - 1)
Field(entry, sh, width) == IF width <= 0 THEN 0 ELSE Shr(entry, sh) % Pow2(width)

\* IntelIA32._read_entry
IntelIA32_read_entry(t, idx, entry, lvl) ==
    IF ~Bit(entry, 0) THEN [valid |-> FALSE, pmask |-> <<>>, addr |-> 0, size |-> 0]
    ELSE LET perms_flags == << <<~Bit(entry, 2), Bit(entry, 1), TRUE>> >>
         IN  IF ~Bit(entry, PSBit) /\ lvl = 0
             THEN [valid |-> TRUE, pmask |-> perms_flags,
                   addr |-> Shl(Field(entry, FlagBits, PfnBits), PageShift), size |-> 0]
             ELSE [valid |-> TRUE, pmask |-> perms_flags,
                   addr |-> IF lvl = 0
                            THEN BitOr(Shl(Field(entry, FlagBits + 1, t.mphy - Phys32), Phys32),
                                       Shl(Field(entry, EntryShift(shifts(t.cls, 0)),
                                                 Phys32 - shifts(t.cls, 0)),
                                           shifts(t.cls, 0)))
                            ELSE Shl(Field(entry, FlagBits, PfnBits), PageShift),
                   size |-> Pow2(shifts(t.cls, lvl))]

\* IntelAMD64._read_entry
IntelAMD64_read_entry(t, idx, entry, lvl) ==
    IF ~Bit(entry, 0) THEN [valid |-> FALSE, pmask |-> <<>>, addr |-> 0, size |-> 0]
    ELSE LET perms_flags == << <<~Bit(entry, 2), Bit(entry, 1), ~Bit(entry, NXBit)>> >>
         IN  IF (~Bit(entry, PSBit) /\ lvl < 3) \/ lvl = 0
             THEN [valid |-> TRUE, pmask |-> perms_flags,
                   addr |-> Shl(Field(entry, FlagBits, t.mphy - PageShift), PageShift),
                   size |-> 0]
             ELSE [valid |-> TRUE, pmask |-> perms_flags,
                   addr |-> Shl(Field(entry, EntryShift(shifts(t.cls, lvl)),
                                      t.mphy - shifts(t.cls, lvl)),
                                shifts(t.cls, lvl)),
                   size |-> Pow2(shifts(t.cls, lvl))]

\* a decoding that takes an entry of the last level without R, W and X for a
\* pointer
RISCV_read_entry_pointers(t, idx, entry, lvl) ==
    IF ~Bit(entry, 0) THEN [valid |-> FALSE, pmask |-> <<>>, addr |-> 0, size |-> 0]
    ELSE LET perms_flags == << <<~Bit(entry, 4), Bit(entry, 1), Bit(entry, 2), Bit(entry, 3)>> >>
             addr == Shl(Field(entry, FlagBits, PfnBits), PageShift)
         IN  IF Bit(entry, 1) \/ Bit(entry, 2) \/ Bit(entry, 3)
             THEN [valid |-> TRUE, pmask |-> perms_flags, addr |-> addr,
                   size |-> Pow2(shifts(t.cls, lvl))]
             ELSE [valid |-> TRUE, pmask |-> perms_flags, addr |-> addr, size |-> 0]

\* RISCVSV32._read_entry and RISCVSV39._read_entry: they differ in the
\* width of the frame number and in the level that is always a leaf
RISCV_read_entry(t, idx, entry, lvl) ==
    IF ~Bit(entry, 0) THEN [valid |-> FALSE, pmask |-> <<>>, addr |-> 0, size |-> 0]
    ELSE LET k == ~Bit(entry, 4)
             r == Bit(entry, 1)
             w == Bit(entry, 2)
             x == Bit(entry, 3)
             perms_flags == << <<k, r, w, x>> >>
             addr == Shl(Field(entry, FlagBits, PfnBits), PageShift)
         IN  IF r \/ w \/ x \/ lvl = total_levels(t.cls) - 1
             THEN [valid |-> TRUE, pmask |-> perms_flags, addr |-> addr,
                   size |-> Pow2(shifts(t.cls, lvl))]
             ELSE [valid |-> TRUE, pmask |-> perms_flags, addr |-> addr, size |-> 0]

_read_entry(t, idx, entry, lvl) ==
    CASE t.cls = "IntelIA32" -> IntelIA32_read_entry(t, idx, entry, lvl)
      [] t.cls = "IntelAMD64" -> IntelAMD64_read_entry(t, idx, entry, lvl)
      [] OTHER -> RISCV_read_entry(t, idx, entry, lvl)

any(flags) == \E i \in 1..Len(flags) : flags[i]

all(flags) == \A i \in 1..Len(flags) : flags[i]

Column(pmask, c) == [i \in 1..Len(pmask) |-> pmask[i][c]]

B2I(b) == IF b THEN 1 ELSE 0

\* r << 2 | w << 1 | x
Triple(r, w, x) == 4 * B2I(r) + 2 * B2I(w) + B2I(x)

\* IntelIA32._reconstruct_permissions
IntelIA32_reconstruct_permissions(t, pmask) ==
    LET k_flags == Column(pmask, 1)
        w_flags == Column(pmask, 2)
    IN  IF any(k_flags)
        THEN <<Triple(TRUE, IF t.wp THEN all(w_flags) ELSE TRUE, TRUE), 0>>
        ELSE <<0, Triple(TRUE, all(w_flags), TRUE)>>

\* a reconstruction that takes a page for writable when one level is
IntelAMD64_reconstruct_permissions_any_w(t, pmask) ==
    LET k_flags == Column(pmask, 1)
        w_flags == Column(pmask, 2)
        x_flags == Column(pmask, 3)
    IN  IF any(k_flags)
        THEN <<Triple(TRUE, IF t.wp THEN any(w_flags) ELSE TRUE,
                      IF t.nxe THEN all(x_flags) ELSE TRUE), 0>>
        ELSE <<0, Triple(TRUE, any(w_flags), IF t.nxe THEN all(x_flags) ELSE TRUE)>>

\* IntelAMD64._reconstruct_permissions
IntelAMD64_reconstruct_permissions(t, pmask) ==
    LET k_flags == Column(pmask, 1)
        w_flags == Column(pmask, 2)
        x_flags == Column(pmask, 3)
    IN  IF any(k_flags)
        THEN <<Triple(TRUE, IF t.wp THEN all(w_flags) ELSE TRUE,
                      IF t.nxe THEN all(x_flags) ELSE TRUE), 0>>
        ELSE <<0, Triple(TRUE, all(w_flags), IF t.nxe THEN all(x_flags) ELSE TRUE)>>

\* a reconstruction that makes a leaf kernel-only when a level above it is
RISCV_reconstruct_permissions_hierarchy(t, pmask) ==
    LET last == pmask[Len(pmask)]
        r == last[2] \/ (t.mxr /\ last[4])
        w == last[3]
        x == last[4]
    IN  IF any(Column(pmask, 1)) THEN <<Triple(r, w, x), 0>> ELSE <<0, Triple(r, w, x)>>

\* RISCVTranslator._reconstruct_permissions
RISCV_reconstruct_permissions(t, pmask) ==
    LET last == pmask[Len(pmask)]
        k_flag == last[1]
        r == last[2] \/ (t.mxr /\ last[4])
        w == last[3]
        x == last[4]
    IN  IF k_flag THEN <<Triple(r, w, x), 0>> ELSE <<0, Triple(r, w, x)>>

_reconstruct_permissions(t, pmask) ==
    CASE t.cls = "IntelIA32" -> IntelIA32_reconstruct_permissions(t, pmask)
      [] t.cls = "IntelAMD64" -> IntelAMD64_reconstruct_permissions(t, pmask)
      [] OTHER -> RISCV_reconstruct_permissions(t, pmask)

\* a finalization that leaves every address as the walk computed it
finalize_virt_addr_identity(t, virt_addr, permissions) == virt_addr

\* _finalize_virt_addr: the canonical form on AMD64 (the test is on the top
\* implemented address bit, the one the root index gives), the identity
\* elsewhere
_finalize_virt_addr(t, virt_addr, permissions) ==
    IF t.cls = "IntelAMD64" /\ Bit(virt_addr, shifts(t.cls, 0))
    THEN BitOr(prefix(t.cls), virt_addr)
    ELSE virt_addr

\* ------------------------------------------------------------------------
\* AddressTranslator: the walk.  The result is [err, leaves]: leaves is the
\* list of the mapping entries in the order the walk appends them, each with
\* its permission key; mapping[key] is the sub-list of the entries of key,
\* and the keys of the dict are in the order of their first entry.
\* ------------------------------------------------------------------------
RECURSIVE _explore_radixtree(_, _, _, _, _, _)
RECURSIVE explore_entries(_, _, _, _, _, _, _)
NoLeaves == [err |-> "", leaves |-> <<>>]

\* the bytes of a table word
WordBytes == 2

\* unpack_fmt of a translator class: "<I" or "<Q", the byte order of both
unpack_fmt(cls) == "little"

\* word_fmt of AddressTranslator.__init__: the byte order the dump's note
\* records
word_fmt(phy) == IF phy.machine_data.Endianness = "big" THEN "big" ELSE "little"

\* the bytes the dump holds for the word a machine stored
StoredBytes(phy, word) == to_bytes(word, WordBytes, phy.machine_data.Endianness)

\* iter_unpack(self.unpack_fmt, table) for one entry of the table
iter_unpack(fmt, bytes) == from_bytes(bytes, fmt)

\* lines 781-796: a leaf entry, with the results of in_ram and in_mmd
explore_leaf(t, e, virt_addr, permissions, ram, mmd) ==
    IF ram.err # "" THEN [err |-> ram.err, leaves |-> <<>>]
    ELSE IF ~ram.val /\ ~mmd THEN NoLeaves
    ELSE [err |-> "",
          leaves |-> << [perm |-> permissions,
                         virt |-> _finalize_virt_addr(t, virt_addr, permissions),
                         size |-> e.size,
                         phys |-> e.addr,
                         mmd |-> mmd,
                         ram |-> ram.val] >>]

\* lines 773-806: the decoded entry e at virt_addr, pmask being upmask + pmask
explore_entry(t, phy, e, lvl, virt_addr, pmask) ==
    IF ~e.valid THEN NoLeaves
    ELSE IF lvl = total_levels(t.cls) - 1 \/ e.size # 0
    THEN explore_leaf(t, e, virt_addr, _reconstruct_permissions(t, pmask),
                      in_ram(phy, e.addr, e.size), in_mmd(phy, e.addr, e.size))
    ELSE _explore_radixtree(t, phy, e.addr, lvl + 1, virt_addr, pmask)

explore_decoded(t, phy, e, index, lvl, pfx, upmask) ==
    explore_entry(t, phy, e, lvl, BitOr(pfx, Shl(index, shifts(t.cls, lvl))),
                  upmask \o e.pmask)

\* an exception in one entry ends the loop; otherwise the entries that
\* follow append after it
explore_join(this, rest) ==
    IF this.err # "" THEN this
    ELSE [err |-> rest.err, leaves |-> this.leaves \o rest.leaves]

\* the for loop of _explore_radixtree for the entries index..
explore_entries(t, phy, table, index, lvl, pfx, upmask) ==
    IF index >= Len(table) THEN NoLeaves
    ELSE Bind(Bind(_read_entry(t, index,
                               iter_unpack(unpack_fmt(t.cls), StoredBytes(phy, table[index + 1])),
                               lvl),
                   LAMBDA e : explore_decoded(t, phy, e, index, lvl, pfx, upmask)),
              LAMBDA this :
                  Bind(explore_entries(t, phy, table, index + 1, lvl, pfx, upmask),
                       LAMBDA rest : explore_join(this, rest)))

\* lines 762-768: the table read by get_data
explore_table(t, phy, table, lvl, pfx, upmask) ==
    IF table.err # "" THEN [err |-> table.err, leaves |-> <<>>]
    ELSE IF Len(table.data) = 0 THEN NoLeaves
    ELSE explore_entries(t, phy, table.data, 0, lvl, pfx, upmask)

\* AddressTranslator._explore_radixtree
_explore_radixtree(t, phy, table_addr, lvl, pfx, upmask) ==
    Bind(get_data(phy, table_addr, table_sizes(t.cls, lvl)),
         LAMBDA table : explore_table(t, phy, table, lvl, pfx, upmask))

\* ------------------------------------------------------------------------
\* IMOverlapping.  intervals is a list of <<l, r, v>>, v a tuple of values.
\* ------------------------------------------------------------------------
\* a Python dict as the list of its <<key, value>> items in insertion order
DictHas(d, k) == \E i \in 1..Len(d) : d[i][1] = k

DictPop(d, k) ==
    LET Keep(item) == item[1] # k
    IN  SelectSeq(d, Keep)

DictSet(d, k, val) ==
    IF DictHas(d, k) THEN [i \in 1..Len(d) |-> IF d[i][1] = k THEN <<k, val>> ELSE d[i]]
    ELSE Append(d, <<k, val>>)

RECURSIVE DictPopAll(_, _)
DictPopAll(d, ks) ==
    IF Len(ks) = 0 THEN [err |-> "", d |-> d]
    ELSE IF ~DictHas(d, ks[1]) THEN [err |-> "KeyError", d |-> d]
    ELSE DictPopAll(DictPop(d, ks[1]), Tail(ks))

RECURSIVE DictSetAll(_, _, _)
DictSetAll(d, ks, val) ==
    IF Len(ks) = 0 THEN d ELSE DictSetAll(DictSet(d, ks[1], val), Tail(ks), val)

\* the sorted keys of limit2changes
RECURSIVE SortedSet(_)
SortedSet(S) ==
    IF S = {} THEN <<>>
    ELSE LET m == CHOOSE x \in S : \A y \in S : x <= y
         IN  <<m>> \o SortedSet(S \ {m})

Limits(intervals) ==
    SortedSet({intervals[i][1] : i \in 1..Len(intervals)}
              \cup {intervals[i][2] : i \in 1..Len(intervals)})

\* limit2changes[lim][c]: the values of the intervals whose component c is lim
Changes(intervals, lim, c) ==
    LET At(iv) == iv[c] = lim
        sel == SelectSeq(intervals, At)
    IN  [i \in 1..Len(sel) |-> sel[i][3]]

\* res: for k, v in offsets.items(): res.extend([i + v for i in k])
RECURSIVE OffsetsResult(_)
OffsetsResult(offsets) ==
    IF Len(offsets) = 0 THEN <<>>
    ELSE [i \in 1..Len(offsets[1][1]) |-> offsets[1][1][i] + offsets[1][2]]
         \o OffsetsResult(Tail(offsets))

\* the second loop of IMOverlapping.__init__, from limit number idx (0-based)
RECURSIVE IMOverlapping_loop(_, _, _, _, _)
IMOverlapping_loop(intervals, limits, idx, offsets, results) ==
    IF idx >= Len(limits) THEN [err |-> "", limits |-> limits, results |-> results]
    ELSE LET lim == limits[idx + 1]
             delta == lim - PyIndex(limits, idx - 1)
             Moved(d) == [i \in 1..Len(d) |-> <<d[i][1], d[i][2] + delta>>]
             Arrive(popped) ==
                 IF popped.err # ""
                 THEN [err |-> popped.err, limits |-> limits, results |-> results]
                 ELSE Bind(DictSetAll(Moved(popped.d), Changes(intervals, lim, 1), 0),
                           LAMBDA arrived :
                               IMOverlapping_loop(intervals, limits, idx + 1, arrived,
                                                  Append(results, OffsetsResult(arrived))))
         IN  Bind(DictPopAll(offsets, Changes(intervals, lim, 2)), Arrive)

\* IMOverlapping.__init__ on the list intervals: unpacking
\* zip(*sorted(...)) of an empty dict raises ValueError
IMOverlapping_init(intervals) ==
    IF \E i \in 1..Len(intervals) : ~(intervals[i][1] < intervals[i][2])
    THEN [err |-> "AssertionError", limits |-> <<>>, results |-> <<>>]
    ELSE IF Len(intervals) = 0
    THEN [err |-> "ValueError", limits |-> <<>>, results |-> <<>>]
    ELSE Bind(Limits(intervals),
              LAMBDA limits : IMOverlapping_loop(intervals, limits, 0, <<>>, << <<>> >>))

IMOverlapping(intervals) == Bind(intervals, IMOverlapping_init)

\* IMOverlapping.__getitem__
IMOverlapping_getitem(im, x) ==
    LET idx == bisect(im.limits, x)
        k == x - PyIndex(im.limits, idx - 1)
        res == PyIndex(im.results, idx)
    IN  [i \in 1..Len(res) |-> k + res[i]]

\* ------------------------------------------------------------------------
\* AddressTranslator: the maps built after the walk.  An interval of the
\* collected list is <<begin, end, phy, kernel triple, user triple>>.
\* ------------------------------------------------------------------------
\* the for loop shared by _compact_intervals_virt_offset and by the fusion
\* inside export_virtual_memory_elf: [prev_begin, prev_end, prev_offset, fused]
RECURSIVE virt_offset_loop(_, _, _, _, _, _, _)
virt_offset_loop(phy, intervals, i, prev_begin, prev_end, prev_offset, fused) ==
    IF i > Len(intervals)
    THEN [prev_begin |-> prev_begin, prev_end |-> prev_end,
          prev_offset |-> prev_offset, fused |-> fused]
    ELSE LET begin == intervals[i][1]
             end == intervals[i][2]
             offset == IMOffsets_getitem(phy.p2o, intervals[i][3])
         IN  IF offset = -1
             THEN virt_offset_loop(phy, intervals, i + 1, prev_begin, prev_end,
                                   prev_offset, fused)
             ELSE IF prev_end = begin /\ prev_offset + (prev_end - prev_begin) = offset
             THEN virt_offset_loop(phy, intervals, i + 1, prev_begin, end, prev_offset, fused)
             ELSE virt_offset_loop(phy, intervals, i + 1, begin, end, offset,
                                   Append(fused, <<prev_begin, prev_end, prev_offset>>))

\* the lines after the loop: the last run is appended, from the previous
\* values or from the last interval of the list
virt_offset_fuse(phy, intervals) ==
    LET l == virt_offset_loop(phy, intervals, 1, -1, -1, -1, <<>>)
        last == intervals[Len(intervals)]
        offset == IMOffsets_getitem(phy.p2o, last[3])
        fused == IF l.prev_begin # last[1]
                 THEN Append(l.fused, <<l.prev_begin, l.prev_end, l.prev_offset>>)
                 ELSE IF offset = -1 THEN l.fused
                 ELSE Append(l.fused, <<last[1], last[2], offset>>)
    IN  Tail(fused)

\* a compaction that keeps every interval as it is
virt_offset_unfused(phy, intervals) ==
    LET Resolvable(x) == IMOffsets_getitem(phy.p2o, x[3]) # -1
        kept == SelectSeq(intervals, Resolvable)
    IN  [i \in 1..Len(kept) |->
            <<kept[i][1], kept[i][2], IMOffsets_getitem(phy.p2o, kept[i][3])>>]

\* AddressTranslator._compact_intervals_virt_offset
_compact_intervals_virt_offset(phy, intervals) == virt_offset_fuse(phy, intervals)

\* the for loop of _compact_intervals_permissions
RECURSIVE permissions_loop(_, _, _, _, _, _)
permissions_loop(intervals, i, prev_begin, prev_end, prev_pmask, fused) ==
    IF i > Len(intervals)
    THEN LET last == intervals[Len(intervals)]
         IN  IF prev_begin # last[1]
             THEN Append(fused, <<prev_begin, prev_end>> \o prev_pmask)
             ELSE Append(fused, <<last[1], last[2], last[4], last[5]>>)
    ELSE LET begin == intervals[i][1]
             end == intervals[i][2]
             pmask == <<intervals[i][4], intervals[i][5]>>
         IN  IF prev_end = begin /\ prev_pmask = pmask
             THEN permissions_loop(intervals, i + 1, prev_begin, end, prev_pmask, fused)
             ELSE permissions_loop(intervals, i + 1, begin, end, pmask,
                                   Append(fused, <<prev_begin, prev_end>> \o prev_pmask))

\* AddressTranslator._compact_intervals_permissions
_compact_intervals_permissions(intervals) ==
    Tail(permissions_loop(intervals, 1, -1, -1, <<0, 0>>, <<>>))

\* the keys of a dict filled in the order of leaves, by the key function Key
RECURSIVE FirstSeen(_, _)
FirstSeen(ks, seen) ==
    IF Len(ks) = 0 THEN <<>>
    ELSE IF ks[1] \in seen THEN FirstSeen(Tail(ks), seen)
    ELSE <<ks[1]>> \o FirstSeen(Tail(ks), seen \cup {ks[1]})

\* self.mapping.keys()
MappingKeys(leaves) == FirstSeen([i \in 1..Len(leaves) |-> leaves[i].perm], {})

\* self.mapping[pmask]
MappingOf(leaves, pmask) ==
    LET Is(x) == x.perm = pmask
    IN  SelectSeq(leaves, Is)

\* the leaves the walk also records in reverse_mapping
ReverseLeaves(leaves) ==
    LET Is(x) == x.ram /\ ~x.mmd
    IN  SelectSeq(leaves, Is)

\* the collected intervals of _reconstruct_mappings, before the sort
RECURSIVE collect_intervals(_, _)
collect_intervals(leaves, keys) ==
    IF Len(keys) = 0 THEN <<>>
    ELSE LET pmask == keys[1]
             mapping_p == MappingOf(leaves, pmask)
             NotMmd(x) == ~x.mmd
             kept == SelectSeq(mapping_p, NotMmd)
         IN  (IF pmask[2] = 0 THEN <<>>
              ELSE [i \in 1..Len(kept) |->
                       <<kept[i].virt, kept[i].virt + kept[i].size, kept[i].phys,
                         pmask[1], pmask[2]>>])
             \o collect_intervals(leaves, Tail(keys))

\* reverse_mapping[pmasks].items() translated: <<offset, size + offset>> \o v
RECURSIVE o2v_of_key(_, _, _)
o2v_of_key(phy, rleaves, ks) ==
    IF Len(ks) = 0 THEN <<>>
    ELSE LET k == ks[1]
             Is(x) == <<x.phys, x.size>> = k
             same == SelectSeq(rleaves, Is)
             v == [i \in 1..Len(same) |-> same[i].virt]
             offset == IMOffsets_getitem(phy.p2o, k[1])
         IN  (IF offset = -1 THEN <<>> ELSE << <<offset, k[2] + offset, v>> >>)
             \o o2v_of_key(phy, rleaves, Tail(ks))

\* the loop that fills intervals_o2v
RECURSIVE collect_o2v(_, _, _)
collect_o2v(phy, rleaves, keys) ==
    IF Len(keys) = 0 THEN <<>>
    ELSE LET pmasks == keys[1]
             d == MappingOf(rleaves, pmasks)
             dkeys == FirstSeen([i \in 1..Len(d) |-> <<d[i].phys, d[i].size>>], {})
         IN  (IF pmasks[2] # 0 THEN <<>> ELSE o2v_of_key(phy, d, dkeys))
             \o collect_o2v(phy, rleaves, Tail(keys))

\* intervals_o2v.sort(): the order of the tuples (offset, end, tuple(v))
O2vFlat(s) == [i \in 1..Len(s) |-> <<s[i][1], s[i][2]>> \o s[i][3]]

\* the index of the least tuple of s, the first one among equal tuples
LeastO2v(s) ==
    CHOOSE i \in 1..Len(s) :
        \A j \in 1..Len(s) :
            \/ TupleLess(O2vFlat(s)[i], O2vFlat(s)[j])
            \/ (O2vFlat(s)[i] = O2vFlat(s)[j] /\ i <= j)

RECURSIVE SortO2vList(_)
SortO2vList(s) ==
    IF Len(s) = 0 THEN <<>>
    ELSE Bind(LeastO2v(s),
              LAMBDA m :
                  <<s[m]>>
                  \o Bind([j \in 1..(Len(s) - 1) |-> IF j < m THEN s[j] ELSE s[j + 1]],
                          SortO2vList))

SortO2v(s) == Bind(s, SortO2vList)

\* lines 973-975: the three resolution objects, o2v last
fill_resolution(leaves, fused_intervals_v2o, fused_intervals_permissions, o2v) ==
    LET err == IF Len(fused_intervals_v2o) = 0 THEN "TypeError" ELSE o2v.err
    IN  [err |-> err,
         mapping |-> leaves,
         v2o |-> IF err = "" THEN fused_intervals_v2o ELSE <<>>,
         o2v |-> IF err = "" THEN [limits |-> o2v.limits, results |-> o2v.results]
                 ELSE [limits |-> <<>>, results |-> <<>>],
         pmasks |-> IF err = "" THEN fused_intervals_permissions ELSE <<>>]

NoMappings(err, leaves) ==
    [err |-> err, mapping |-> leaves, v2o |-> <<>>,
     o2v |-> [limits |-> <<>>, results |-> <<>>], pmasks |-> <<>>]

\* lines 951-970: the sorted intervals and the leaves of reverse_mapping
fuse_mappings(phy, leaves, intervals, rleaves) ==
    IF Len(intervals) = 0 THEN NoMappings("Exception", leaves)
    ELSE Bind(_compact_intervals_virt_offset(phy, intervals),
              LAMBDA fused_intervals_v2o :
                  Bind(IMOverlapping(SortO2v(collect_o2v(phy, rleaves,
                                                         MappingKeys(rleaves)))),
                       LAMBDA o2v :
                           fill_resolution(leaves, fused_intervals_v2o,
                                           _compact_intervals_permissions(intervals),
                                           o2v)))

\* lines 937-949: the walk's result
collect_mappings(phy, walk) ==
    IF walk.err # "" THEN NoMappings(walk.err, <<>>)
    ELSE Bind(sorted(collect_intervals(walk.leaves, MappingKeys(walk.leaves))),
              LAMBDA intervals :
                  Bind(ReverseLeaves(walk.leaves),
                       LAMBDA rleaves : fuse_mappings(phy, walk.leaves, intervals, rleaves)))

\* AddressTranslator._reconstruct_mappings
_reconstruct_mappings(t, phy, table_addr, upmask) ==
    Bind(_explore_radixtree(t, phy, table_addr, 0, 0, upmask),
         LAMBDA walk : collect_mappings(phy, walk))

\* ------------------------------------------------------------------------
\* Factory
\* ------------------------------------------------------------------------
\* sub in architecture, for the architecture tags e_machine can give
InStr(sub, architecture) ==
    CASE sub = "riscv" -> architecture = "riscv"
      [] sub = "x86" -> architecture = "x86_64"
      [] sub = "x86_64" -> architecture = "x86_64"
      [] sub = "386" -> architecture = "386"
      [] sub = "aarch64" -> architecture = "aarch64"
      [] sub = "arm" -> architecture = "arm"

\* IntelTranslator.derive_translator_class; "pae" returns the exception
\* class instead of raising it
Intel_derive_translator_class(mmu_mode) ==
    CASE mmu_mode = "ia64" -> [err |-> "", cls |-> "IntelAMD64"]
      [] mmu_mode = "pae" -> [err |-> "", cls |-> "NotImplementedError"]
      [] mmu_mode = "ia32" -> [err |-> "", cls |-> "IntelIA32"]
      [] OTHER -> [err |-> "NotImplementedError", cls |-> ""]

\* IntelTranslator.derive_mmu_settings
Intel_derive_mmu_settings(mmu_class, regs_dict, mphy) ==
    CASE mmu_class = "IntelAMD64" ->
             [err |-> "", dtb |-> Shl(Field(regs_dict.cr3, PageShift, mphy - PageShift), PageShift),
              wp |-> TRUE, nxe |-> TRUE, mphy |-> mphy]
      [] mmu_class = "IntelIA32" ->
             [err |-> "", dtb |-> Shl(Field(regs_dict.cr3, PageShift, PfnBits), PageShift),
              wp |-> TRUE, nxe |-> TRUE, mphy |-> Min(mphy, MphyClamp)]
      [] OTHER -> [err |-> "NotImplementedError", dtb |-> 0, wp |-> TRUE, nxe |-> TRUE,
                   mphy |-> mphy]

\* RISCVTranslator.derive_translator_class
RISCV_derive_translator_class(mmu_mode) ==
    IF mmu_mode = "sv39" THEN "RISCVSV39" ELSE "RISCVSV32"

\* the translator object after its constructor, m being the result of
\* _reconstruct_mappings
Constructed(t, m) ==
    [err |-> m.err, cls |-> t.cls, dtb |-> t.dtb, minimum_page |-> t.minimum_page,
     mapping |-> m.mapping, v2o |-> m.v2o, o2v |-> m.o2v, pmasks |-> m.pmasks]

Construct(t, phy, upmask) ==
    Bind(_reconstruct_mappings(t, phy, t.dtb, upmask), LAMBDA m : Constructed(t, m))

\* the constructor of a translator class: the settings, then
\* _reconstruct_mappings(self.dtb, upmask) with the class's first mask
Translator(cls, phy, dtb, mphy, wp, nxe, mxr, upmask) ==
    Bind([cls |-> cls, dtb |-> dtb, mphy |-> mphy, wp |-> wp, nxe |-> nxe,
          mxr |-> mxr, minimum_page |-> Pow2(PageShift)],
         LAMBDA t : Construct(t, phy, upmask))

NoTranslator(err) ==
    [err |-> err, cls |-> "", dtb |-> 0, minimum_page |-> 0, mapping |-> <<>>,
     v2o |-> <<>>, o2v |-> [limits |-> <<>>, results |-> <<>>], pmasks |-> <<>>]

Intel_construct(phy, translator_c, mmu_settings) ==
    IF translator_c.err # "" THEN NoTranslator(translator_c.err)
    ELSE IF mmu_settings.err # "" THEN NoTranslator(mmu_settings.err)
    ELSE Translator(translator_c.cls, phy, mmu_settings.dtb, mmu_settings.mphy,
                    mmu_settings.wp, mmu_settings.nxe, FALSE,
                    << <<FALSE, TRUE, TRUE>> >>)

Intel_settings(phy, mmu_values, translator_c) ==
    Intel_construct(phy, translator_c,
                    Intel_derive_mmu_settings(translator_c.cls, mmu_values,
                                              phy.machine_data.MAXPHYADDR))

\* IntelTranslator.factory
IntelTranslator_factory(phy, mmu_values) ==
    Intel_settings(phy, mmu_values,
                   Intel_derive_translator_class(phy.machine_data.MMUMode))

\* RISCVTranslator.factory, with the settings of derive_mmu_settings
RISCVTranslator_factory(phy, mmu_values) ==
    Translator(RISCV_derive_translator_class(phy.machine_data.MMUMode), phy,
               mmu_values.satp, phy.machine_data.MAXPHYADDR,
               FALSE, FALSE, FALSE, << <<FALSE, TRUE, TRUE, TRUE>> >>)

\* get_virtspace
get_virtspace(phy, mmu_values) ==
    IF InStr("riscv", phy.machine_data.Architecture)
    THEN RISCVTranslator_factory(phy, mmu_values)
    ELSE IF InStr("x86", phy.machine_data.Architecture)
            \/ InStr("386", phy.machine_data.Architecture)
    THEN IntelTranslator_factory(phy, mmu_values)
    ELSE NoTranslator("Unknown architecture")

\* ------------------------------------------------------------------------
\* export_virtual_memory_elf.  A file is the list of its bytes; a byte of
\* segment data is one word of the dump.
\* ------------------------------------------------------------------------
e_ehsize == 64
e_phentsize == 56
e_shentsize == 64
PN_XNUM == 65536

Zeros(n) == [i \in 1..n |-> 0]

\* buf[pos:pos+len(b)] = b
SetBytes(buf, pos, b) ==
    [i \in 1..Len(buf) |-> IF pos < i /\ i <= pos + Len(b) THEN b[i - pos] ELSE buf[i]]

\* the e_machine chain; "" stands for the raise of line 1015
e_machine_of(machine) ==
    IF InStr("aarch64", machine) THEN 183
    ELSE IF InStr("arm", machine) THEN 40
    ELSE IF InStr("riscv", machine) THEN 243
    ELSE IF InStr("x86_64", machine) THEN 62
    ELSE IF InStr("386", machine) THEN 3
    ELSE -1

\* the ELF main header written first
elf_h(endianness, e_machine) ==
    LET h0 == Zeros(e_ehsize)
        h1 == SetBytes(h0, 0, <<127, 69, 76, 70>>)
        h2 == SetBytes(h1, 4, <<2, IF endianness = "little" THEN 1 ELSE 2, 1>>)
        h3 == SetBytes(h2, 16, to_bytes(4, 2, endianness))
        h4 == SetBytes(h3, 18, to_bytes(e_machine, 2, endianness))
        h5 == SetBytes(h4, 20, to_bytes(1, 4, endianness))
        h6 == SetBytes(h5, 52, to_bytes(e_ehsize, 2, endianness))
    IN  SetBytes(h6, 54, to_bytes(e_phentsize, 2, endianness))

\* sorted(fused, key=lambda x: x[1] - x[0], reverse=True): by length,
\* longest first, equal lengths in their order in the list
RECURSIVE InsertByLength(_, _)
InsertByLength(s, x) ==
    IF Len(s) = 0 THEN <<x>>
    ELSE IF x[2] - x[1] > s[1][2] - s[1][1] THEN <<x>> \o s
    ELSE <<s[1]>> \o InsertByLength(Tail(s), x)

RECURSIVE SortPrefixByLength(_, _)
SortPrefixByLength(s, n) ==
    IF n = 0 THEN <<>>
    ELSE Bind(SortPrefixByLength(s, n - 1), LAMBDA r : InsertByLength(r, s[n]))

SortByLength(s) == Bind(s, LAMBDA v : SortPrefixByLength(v, Len(v)))

\* a loop over self.mapping that keeps the entries of every key
export_keeps_all(pmask) == TRUE

\* whether the loop over self.mapping keeps the entries of this key
export_keeps(pmask) == pmask[2] # 0

\* intervals[pmask] before the fusion: the entries of the key that are not
\* memory-mapped devices, sorted
export_group_intervals(mapping, pmask) ==
    LET intervals_list == MappingOf(mapping, pmask)
        NotMmd(x) == ~x.mmd
        kept == SelectSeq(intervals_list, NotMmd)
    IN  sorted([i \in 1..Len(kept) |->
                   <<kept[i].virt, kept[i].virt + kept[i].size, kept[i].phys>>])

\* a fusion that forgets the lines after the loop: the last run is lost
export_fuse_drop_last(phy, intervals) ==
    Tail(virt_offset_loop(phy, intervals, 1, -1, -1, -1, <<>>).fused)

\* lines 1048-1076: the fusion inside the export, the same loop as
\* _compact_intervals_virt_offset
export_fuse(phy, intervals) == virt_offset_fuse(phy, intervals)

\* the first loop of the export: the segments <<pmask, begin, end, offset>>
\* of every user permission, in the order in which the second loop visits
\* them.  The source keys its dict by the user triple alone; a key of
\* self.mapping with a non-zero user triple has the kernel triple 0, so the
\* keys the loop keeps have distinct user triples.
RECURSIVE export_segments(_, _, _)
export_segments(phy, mapping, keys) ==
    IF Len(keys) = 0 THEN <<>>
    ELSE LET pmask == keys[1]
             Fused(group) ==
                 IF ~export_keeps(pmask) \/ Len(group) = 0 THEN <<>>
                 ELSE Bind(SortByLength(export_fuse(phy, group)),
                           LAMBDA fused :
                               [i \in 1..Len(fused) |-> <<pmask[2]>> \o fused[i]])
         IN  Bind(export_group_intervals(mapping, pmask), Fused)
             \o export_segments(phy, mapping, Tail(keys))

\* the new entries of offset2p_offset for a segment that is written
cache_pages(offset, size, new_offset, minimum_page) ==
    [o \in {offset + page_idx : page_idx \in {k \in 0..(size - 1) : k % minimum_page = 0}}
        |-> new_offset + (o - offset)]

\* the file position a segment gets when its offset is in offset2p_offset
cached_offset(offset2p_offset, offset) == offset2p_offset[offset]

\* the dump pages of a segment that is written, in the order of the loop
\* of line 1099
segment_pages(offset, size, minimum_page) ==
    LET n == (size + minimum_page - 1) \div minimum_page
    IN  [k \in 1..n |-> offset + (k - 1) * minimum_page]

\* the second loop of the export over segs[i..]: the bytes appended to the
\* file, for every segment <<pmask, begin, end, offset, new_offset>>, and
\* the dump pages whose bytes were appended, once per write
RECURSIVE export_write(_, _, _, _, _, _, _, _, _)
export_write(phy, minimum_page, segs, i, p_offset, offset2p_offset, data, out, pages) ==
    IF i > Len(segs)
    THEN [data |-> data, segments |-> out, p_offset |-> p_offset, pages |-> pages]
    ELSE LET begin == segs[i][2]
             end == segs[i][3]
             offset == segs[i][4]
             size == end - begin
         IN  IF offset \notin DOMAIN offset2p_offset
             THEN export_write(phy, minimum_page, segs, i + 1, p_offset + size,
                               cache_pages(offset, size, p_offset, minimum_page)
                                   @@ offset2p_offset,
                               data \o get_data_raw(phy, offset, size),
                               Append(out, Append(segs[i], p_offset)),
                               pages \o segment_pages(offset, size, minimum_page))
             ELSE export_write(phy, minimum_page, segs, i + 1, p_offset, offset2p_offset,
                               data,
                               Append(out, Append(segs[i],
                                   cached_offset(offset2p_offset, offset))),
                               pages)

\* a program header entry that stores the dump offset as p_paddr
segment_entry_offset(phy, seg, endianness) ==
    LET p_filesz == seg[3] - seg[2]
        s0 == Zeros(e_phentsize)
        s1 == SetBytes(s0, 0, to_bytes(1, 4, endianness))
        s2 == SetBytes(s1, 4, to_bytes(seg[1], 4, endianness))
        s3 == SetBytes(s2, 16, to_bytes(seg[2], 8, endianness))
        s4 == SetBytes(s3, 24, to_bytes(seg[4], 8, endianness))
        s5 == SetBytes(s4, 40, to_bytes(p_filesz, 8, endianness))
        s6 == SetBytes(s5, 8, to_bytes(seg[5], 8, endianness))
    IN  SetBytes(s6, 32, to_bytes(p_filesz, 8, endianness))

\* one program header entry for <<pmask, begin, end, offset, p_offset>>
segment_entry(phy, seg, endianness) ==
    LET p_filesz == seg[3] - seg[2]
        p_addr == IMOffsets_getitem(phy.o2p, seg[4])
        s0 == Zeros(e_phentsize)
        s1 == SetBytes(s0, 0, to_bytes(1, 4, endianness))
        s2 == SetBytes(s1, 4, to_bytes(seg[1], 4, endianness))
        s3 == SetBytes(s2, 16, to_bytes(seg[2], 8, endianness))
        s4 == SetBytes(s3, 24, to_bytes(p_addr, 8, endianness))
        s5 == SetBytes(s4, 40, to_bytes(p_filesz, 8, endianness))
        s6 == SetBytes(s5, 8, to_bytes(seg[5], 8, endianness))
    IN  SetBytes(s6, 32, to_bytes(p_filesz, 8, endianness))

\* the program header loop; the assert on o2p stops it
RECURSIVE p_header(_, _, _)
p_header(phy, segments, endianness) ==
    IF Len(segments) = 0 THEN [err |-> "", bytes |-> <<>>]
    ELSE IF IMOffsets_getitem(phy.o2p, segments[1][4]) = -1
    THEN [err |-> "AssertionError", bytes |-> <<>>]
    ELSE Bind(p_header(phy, Tail(segments), endianness),
              LAMBDA rest :
                  [err |-> rest.err,
                   bytes |-> segment_entry(phy, segments[1], endianness) \o rest.bytes])

\* a test that lets the count 65536 through
phnum_fits_inclusive(e_phnum) == e_phnum <= PN_XNUM

\* whether the segment count is stored in e_phnum itself
phnum_fits(e_phnum) == e_phnum < PN_XNUM

\* the header patches that end the export: the main header as patched, and
\* the section header written at s_header_pos (empty when none is written)
patch_header(header, e_phoff, e_phnum, s_header_pos, endianness) ==
    LET h1 == SetBytes(header, 32, to_bytes(e_phoff, 8, endianness))
    IN  IF phnum_fits(e_phnum)
        THEN [header |-> SetBytes(h1, 56, to_bytes(e_phnum, 2, endianness)),
              section |-> <<>>]
        ELSE [header |-> SetBytes(SetBytes(h1, 40, to_bytes(s_header_pos, 8, endianness)),
                                  56,
                                  to_bytes(65535, 2, endianness)
                                      \o to_bytes(e_shentsize, 2, endianness)
                                      \o to_bytes(1, 2, endianness)),
              section |-> SetBytes(Zeros(e_shentsize), 44, to_bytes(e_phnum, 4, endianness))]

\* lines 1137-1163: the file once the headers are patched
export_patched(w, ph, patched) ==
    [err |-> "", created |-> TRUE,
     file |-> patched.header \o w.data \o ph.bytes \o patched.section]

\* lines 1107-1135: the program headers ph follow the data w
export_close(header, n, w, ph, endianness) ==
    IF ph.err # "" THEN [err |-> ph.err, created |-> TRUE, file |-> header \o w.data]
    ELSE export_patched(w, ph,
                        patch_header(header, e_ehsize + Len(w.data), n,
                                     e_ehsize + Len(w.data) + Len(ph.bytes), endianness))

export_headers(phy, header, n, w, endianness) ==
    Bind(p_header(phy, w.segments, endianness),
         LAMBDA ph : export_close(header, n, w, ph, endianness))

\* lines 1081-1105: the data of the segments segs follow the header
export_data(phy, t, header, segs, endianness) ==
    Bind(export_write(phy, t.minimum_page, segs, 1, e_ehsize, <<>>, <<>>, <<>>, <<>>),
         LAMBDA w : export_headers(phy, header, Len(segs), w, endianness))

\* AddressTranslator.export_virtual_memory_elf: created tells whether the
\* file exists afterwards, file is its content
export_virtual_memory_elf(t, phy, io_ok) ==
    IF ~io_ok THEN [err |-> "IOError", created |-> FALSE, file |-> <<>>]
    ELSE IF e_machine_of(phy.machine_data.Architecture) = -1
    THEN [err |-> "Unknown architecture", created |-> TRUE, file |-> <<>>]
    ELSE Bind(export_segments(phy, t.mapping, MappingKeys(t.mapping)),
              LAMBDA segs :
                  export_data(phy, t,
                              elf_h(phy.machine_data.Endianness,
                                    e_machine_of(phy.machine_data.Architecture)),
                              segs, phy.machine_data.Endianness))

\* ------------------------------------------------------------------------
\* The inputs: the dump and the MMU snapshot list
\* ------------------------------------------------------------------------
\* a page-table entry from its bits
Entry(b0, b1, b2, b3, b4, ps, pfn, nx) ==
    B2I(b0) + 2 * B2I(b1) + 4 * B2I(b2) + 8 * B2I(b3) + 16 * B2I(b4)
    + Pow2(PSBit) * B2I(ps) + Pow2(FlagBits) * pfn + Pow2(NXBit) * B2I(nx)

\* Intel entries: present, W, U, page size, frame, NX
Intel(w, u, ps, pfn, nx) == Entry(TRUE, w, u, FALSE, FALSE, ps, pfn, nx)

\* RISC-V entries: valid, R, W, X, U, frame
RiscV(r, w, x, u, pfn) == Entry(TRUE, r, w, x, u, FALSE, pfn, FALSE)

\* the machine descriptions of the dumps: the architecture tag from
\* e_machine and the MMU mode of the note
Machines ==
    { [Architecture |-> "386", MMUMode |-> "ia32"],
      [Architecture |-> "x86_64", MMUMode |-> "ia64"],
      [Architecture |-> "riscv", MMUMode |-> "sv32"],
      [Architecture |-> "riscv", MMUMode |-> "sv39"],
      [Architecture |-> "386", MMUMode |-> "pae"],
      [Architecture |-> "x86_64", MMUMode |-> "ia16"],
      [Architecture |-> "riscv", MMUMode |-> "sv48"],
      [Architecture |-> "arm", MMUMode |-> "short"],
      [Architecture |-> "mips", MMUMode |-> "r4k"] }

MachineData(m) ==
    [Architecture |-> m.Architecture, MMUMode |-> m.MMUMode, Endianness |-> "little",
     MAXPHYADDR |-> PageShift + PfnBits]

\* the machines whose page tables the model varies
Walked(m) == m.MMUMode \in {"ia32", "ia64", "sv32", "sv39", "sv48"}

\* the words of the two page-table pages (frame 0 and frame 1) of a dump:
\* the candidates of each of the four entries
TableWords(m) ==
    IF ~Walked(m) THEN { <<0, 0, 0, 0>> }
    ELSE IF m.Architecture = "riscv"
    THEN { <<a, b, c, d>> :
              a \in { RiscV(FALSE, FALSE, FALSE, FALSE, 1),
                      RiscV(TRUE, TRUE, FALSE, TRUE, 0),
                      RiscV(FALSE, FALSE, FALSE, FALSE, 0) },
              b \in { 0,
                      RiscV(TRUE, FALSE, TRUE, TRUE, 0),
                      RiscV(TRUE, TRUE, FALSE, TRUE, 2),
                      RiscV(TRUE, TRUE, FALSE, FALSE, 0) },
              c \in { RiscV(TRUE, TRUE, FALSE, TRUE, 0),
                      RiscV(FALSE, FALSE, FALSE, FALSE, 1),
                      RiscV(TRUE, TRUE, FALSE, TRUE, 4) },
              d \in { RiscV(TRUE, TRUE, FALSE, FALSE, 1),
                      0,
                      RiscV(TRUE, TRUE, FALSE, TRUE, 7),
                      RiscV(TRUE, TRUE, FALSE, TRUE, 2) } }
    ELSE { <<a, b, c, d>> :
              a \in { Intel(FALSE, TRUE, FALSE, 1, FALSE),
                      Intel(TRUE, TRUE, FALSE, 1, FALSE),
                      Intel(TRUE, TRUE, FALSE, 0, TRUE) },
              b \in { 0,
                      Intel(TRUE, TRUE, TRUE, 0, FALSE),
                      Intel(TRUE, TRUE, TRUE, 2, FALSE),
                      Intel(TRUE, FALSE, TRUE, 0, FALSE),
                      Intel(TRUE, TRUE, FALSE, 1, FALSE) },
              c \in { Intel(TRUE, TRUE, FALSE, 0, FALSE),
                      Intel(TRUE, TRUE, FALSE, 1, FALSE),
                      Intel(TRUE, TRUE, FALSE, 4, FALSE) },
              d \in { Intel(TRUE, FALSE, FALSE, 1, FALSE),
                      0,
                      Intel(TRUE, TRUE, FALSE, 7, FALSE),
                      Intel(TRUE, TRUE, FALSE, 2, FALSE) } }

\* physical memory: frames 0 and 1 hold the tables, frame 2 holds data
Memory(words) == words \o <<1000, 1002>>

\* the LOAD segments of the dump in the order of its program headers: RAM
\* is three frames, in one segment or in two that the file stores in the
\* reverse order, or it ends in the middle of the third frame; the device
\* space is frames 4 and 5
Layouts ==
    { << [p_vaddr |-> 0, p_memsz |-> 6, p_offset |-> 4, p_filesz |-> 6],
         [p_vaddr |-> 8, p_memsz |-> 4, p_offset |-> 0, p_filesz |-> 0] >>,
      << [p_vaddr |-> 0, p_memsz |-> 5, p_offset |-> 4, p_filesz |-> 5],
         [p_vaddr |-> 8, p_memsz |-> 4, p_offset |-> 0, p_filesz |-> 0] >>,
      << [p_vaddr |-> 4, p_memsz |-> 2, p_offset |-> 4, p_filesz |-> 2],
         [p_vaddr |-> 0, p_memsz |-> 4, p_offset |-> 6, p_filesz |-> 4],
         [p_vaddr |-> 8, p_memsz |-> 4, p_offset |-> 0, p_filesz |-> 0] >> }

\* the dump file: the bytes before the first segment, then every RAM
\* segment's words at its p_offset
DumpFile(segms, mem) ==
    LET Src(o) == {i \in 1..Len(segms) :
                      /\ segms[i].p_filesz # 0
                      /\ segms[i].p_offset <= o
                      /\ o < segms[i].p_offset + segms[i].p_filesz}
        Word(o) == LET i == CHOOSE i \in Src(o) : TRUE
                   IN  mem[segms[i].p_vaddr + (o - segms[i].p_offset) + 1]
    IN  [j \in 1..(4 + Len(mem)) |-> IF Src(j - 1) = {} THEN 0 ELSE Word(j - 1)]

\* the register values of a process: a translation base in frame 0 (with
\* low bits set in cr3), or one in frame 7, outside RAM and device space
Registers ==
    { [cr3 |-> 1, satp |-> 0],
      [cr3 |-> Shl(7, PageShift), satp |-> Shl(7, PageShift)] }

RECURSIVE SeqsUpTo(_, _)
SeqsUpTo(S, n) ==
    IF n = 0 THEN { <<>> }
    ELSE SeqsUpTo(S, n - 1)
         \cup { Append(q, x) : q \in {r \in SeqsUpTo(S, n - 1) : Len(r) = n - 1}, x \in S }

\* ------------------------------------------------------------------------
\* main
\* ------------------------------------------------------------------------
VARIABLES pc, args, elf_dump, idx, virtspace, files, log, exported

vars == <<pc, args, elf_dump, idx, virtspace, files, log, exported>>

NoDump ==
    [err |-> "", machine_data |-> [Architecture |-> "", MMUMode |-> "",
                                   Endianness |-> "", MAXPHYADDR |-> 0],
     elf_buf |-> <<>>, p2o |-> <<>>, o2p |-> <<>>, p2mmd |-> <<>>]

\* the state before main runs, for the dumps of the given machines and
\* layouts with the page tables Words(m)
InitOf(machines, layouts, Words(_)) ==
    /\ pc = "start"
    /\ \E m \in machines, segms \in layouts, session_ok \in BOOLEAN :
       \E words \in Words(m) :
       \E mmu_data \in (IF session_ok THEN SeqsUpTo(Registers, MaxProcs) ELSE { <<>> }) :
          /\ (~session_ok => (words = <<0, 0, 0, 0>> \/ ~Walked(m)))
          /\ args = [session_ok |-> session_ok, mmu_data |-> mmu_data,
                     machine_data |-> MachineData(m), segms |-> segms,
                     elf_buf |-> DumpFile(segms, Memory(words))]
    /\ elf_dump = NoDump
    /\ idx = 0
    /\ virtspace = NoTranslator("")
    /\ files = [i \in {} |-> <<>>]
    /\ log = <<>>
    /\ exported = -1

\* the state before main runs: the two files named on the command line
Init == InitOf(Machines, Layouts, TableWords)

\* lines 28-33: the session file; a failure ends the run with exit(1)
LoadSession ==
    /\ pc = "start"
    /\ pc' = IF args.session_ok THEN "load_elf" ELSE "exit1"
    /\ UNCHANGED <<args, elf_dump, idx, virtspace, files, log, exported>>

\* line 36: the dump; an exception here is not caught
LoadElf ==
    /\ pc = "load_elf"
    /\ elf_dump' = ELFDump(args.segms, args.elf_buf, args.machine_data)
    /\ pc' = IF elf_dump'.err = "" THEN "loop" ELSE "crashed"
    /\ UNCHANGED <<args, idx, virtspace, files, log, exported>>

\* an except clause that ends the loop
after_except_abort(i, n) == n

\* the index the loop goes on with after the except clause of process i
after_except(i, n) == i + 1

\* lines 39-45 around line 41: t is what get_virtspace returns or raises
GetVirtspaceResult(t) ==
    IF t.err = ""
    THEN /\ virtspace' = t
         /\ pc' = "export"
         /\ UNCHANGED <<idx, log>>
    ELSE /\ log' = Append(log, [idx |-> idx, stage |-> "get_virtspace", err |-> t.err])
         /\ idx' = after_except(idx, Len(args.mmu_data))
         /\ UNCHANGED <<pc, virtspace>>

\* line 41, with the except clause when it raises
GetVirtspace ==
    /\ pc = "loop"
    /\ idx < Len(args.mmu_data)
    /\ \E t \in {get_virtspace(elf_dump, args.mmu_data[idx + 1])} : GetVirtspaceResult(t)
    /\ exported' = -1
    /\ UNCHANGED <<args, elf_dump, files>>

\* lines 39-45 around line 42: r is what the export leaves behind
ExportResult(r) ==
    /\ files' = IF r.created THEN (idx :> r.file) @@ files ELSE files
    /\ log' = Append(log, [idx |-> idx, stage |-> "export", err |-> r.err])
    /\ exported' = IF r.err = "" THEN idx ELSE -1
    /\ idx' = IF r.err = "" THEN idx + 1 ELSE after_except(idx, Len(args.mmu_data))

\* line 42, with the except clause when it raises; the file is process.idx.elf
ExportVirtualMemoryElf ==
    /\ pc = "export"
    /\ \E io_ok \in BOOLEAN :
          \E r \in {export_virtual_memory_elf(virtspace, elf_dump, io_ok)} : ExportResult(r)
    /\ pc' = "loop"
    /\ UNCHANGED <<args, elf_dump, virtspace>>

\* the end of the loop
Finish ==
    /\ pc = "loop"
    /\ idx >= Len(args.mmu_data)
    /\ pc' = "done"
    /\ UNCHANGED <<args, elf_dump, idx, virtspace, files, log, exported>>

Next ==
    \/ LoadSession
    \/ LoadElf
    \/ GetVirtspace
    \/ ExportVirtualMemoryElf
    \/ Finish

Spec == Init /\ [][Next]_vars

\* the dumps of the runs whose progress is checked: RAM in one segment, and
\* page tables whose second entry is absent or a large page that runs off
\* the end of RAM and whose third entry maps frame 0
LoopWords(m) ==
    {w \in TableWords(m) :
        /\ w[2] = 0 \/ Field(w[2], FlagBits, PfnBits) = 2
        /\ Field(w[3], FlagBits, PfnBits) = 0}

InitLoop == InitOf(Machines, {segms \in Layouts : Len(segms) = 2}, LoopWords)

\* main is one sequential thread: it takes its next step whenever it has one
FairSpec == InitLoop /\ [][Next]_vars /\ WF_vars(Next)

\* ------------------------------------------------------------------------
\* The header patches on their own: the writer at line 1137, with a segment
\* count e_phnum that no dump of the model reaches.  args holds the values
\* of the writer's locals, files[0] what it leaves in the file.
\* ------------------------------------------------------------------------
MaxDataLen == 3

PhnumValues == {0, 1, 2, 255, 256, 65534, 65535, 65536, 65537, 70000}

InitPhnum ==
    /\ pc = "patch"
    /\ \E n \in PhnumValues, d \in 0..MaxDataLen, en \in {"little", "big"},
          m \in {"386", "x86_64", "riscv"} :
          args = [e_phnum |-> n, e_phoff |-> e_ehsize + d, endianness |-> en,
                  e_machine |-> e_machine_of(m)]
    /\ elf_dump = NoDump
    /\ idx = 0
    /\ virtspace = NoTranslator("")
    /\ files = [i \in {} |-> <<>>]
    /\ log = <<>>
    /\ exported = -1

\* lines 1137-1163: s_header_pos is the position after the program headers
PatchHeader ==
    /\ pc = "patch"
    /\ files' = (0 :> patch_header(elf_h(args.endianness, args.e_machine),
                                   args.e_phoff, args.e_phnum,
                                   args.e_phoff + args.e_phnum * e_phentsize,
                                   args.endianness))
    /\ pc' = "patched"
    /\ UNCHANGED <<args, elf_dump, idx, virtspace, log, exported>>

NextPhnum == PatchHeader

SpecPhnum == InitPhnum /\ [][NextPhnum]_vars

\* ------------------------------------------------------------------------
\* The physical index on its own: one query of the loaded dump's interval
\* maps at the address args.paddr with the size args.size.  log holds the
\* answer.
\* ------------------------------------------------------------------------
MaxQueryAddr == 13

MaxQuerySize == 4

\* the dumps queried: those of main, and one whose RAM has a hole at
\* address 2 and whose device space is two intervals
QueryLayouts ==
    Layouts
    \cup { << [p_vaddr |-> 0, p_memsz |-> 2, p_offset |-> 4, p_filesz |-> 2],
              [p_vaddr |-> 3, p_memsz |-> 3, p_offset |-> 6, p_filesz |-> 3],
              [p_vaddr |-> 8, p_memsz |-> 2, p_offset |-> 0, p_filesz |-> 0],
              [p_vaddr |-> 11, p_memsz |-> 2, p_offset |-> 0, p_filesz |-> 0] >> }

\* interval maps with data, as _compact_intervals_permissions builds them:
\* <<begin, end, user triple>>
DataMaps ==
    { << <<0, 4, 5>>, <<4, 8, 7>> >>,
      << <<2, 6, 5>>, <<8, 12, 7>> >> }

InitIndex ==
    /\ pc = "query"
    /\ \E segms \in QueryLayouts, paddr \in 0..MaxQueryAddr, size \in 1..MaxQuerySize,
          pmasks \in DataMaps :
          /\ args = [segms |-> segms, paddr |-> paddr, size |-> size, pmasks |-> pmasks]
          /\ elf_dump = ELFDump(segms, DumpFile(segms, Memory(<<69, 39, 7, 67>>)),
                                MachineData([Architecture |-> "386", MMUMode |-> "ia32"]))
    /\ idx = 0
    /\ virtspace = NoTranslator("")
    /\ files = [i \in {} |-> <<>>]
    /\ log = <<>>
    /\ exported = -1

\* the answer of a query: what it returns (a truth value, a number, a list)
\* or raises, none telling that contains returned None
Answer(op, ok, none, n, list, err) ==
    /\ pc = "query"
    /\ pc' = "answered"
    /\ log' = <<[op |-> op, ok |-> ok, none |-> none, n |-> n, list |-> list, err |-> err]>>
    /\ UNCHANGED <<args, elf_dump, idx, virtspace, files, exported>>

QueryInRam ==
    \E r \in {in_ram(elf_dump, args.paddr, args.size)} :
        Answer("in_ram", r.val, FALSE, 0, <<>>, r.err)

QueryInMmd ==
    \E r \in {in_mmd(elf_dump, args.paddr, args.size)} :
        Answer("in_mmd", r, FALSE, 0, <<>>, "")

QueryGetData ==
    \E r \in {get_data(elf_dump, args.paddr, args.size)} :
        Answer("get_data", r.err = "", FALSE, Len(r.data), r.data, r.err)

QueryOffsetsContains ==
    \E c \in {IMOffsets_contains(elf_dump.p2o, args.paddr, args.size)} :
        Answer("IMOffsets.contains", ~c.none, c.none, c.size, c.intervals, "")

QuerySimpleContains ==
    \E r \in {IMSimple_contains(elf_dump.p2mmd, args.paddr, args.size)} :
        Answer("IMSimple.contains", r # -1, FALSE, r, <<>>, "")

QueryDataContains ==
    \E r \in {IMData_contains(args.pmasks, args.paddr, args.size)} :
        Answer("IMData.contains", r # -1, FALSE, r, <<>>, "")

NextIndex ==
    \/ QueryInRam
    \/ QueryInMmd
    \/ QueryGetData
    \/ QueryOffsetsContains
    \/ QuerySimpleContains
    \/ QueryDataContains

SpecIndex == InitIndex /\ [][NextIndex]_vars

\* ------------------------------------------------------------------------
\* The permission key on its own: _reconstruct_permissions applied to the
\* mask of a path, the class's first mask followed by the flags of the
\* entries from the root to the leaf.  log holds the key.
\* ------------------------------------------------------------------------
MaxPathLen == 2

\* the flag lists _read_entry returns for a class: [K, W, X] or [K, R, W, X]
EntryFlags(cls) ==
    IF cls \in {"IntelIA32", "IntelAMD64"}
    THEN {<<k, w, x>> : k \in BOOLEAN, w \in BOOLEAN, x \in BOOLEAN}
    ELSE {<<k, r, w, x>> : k \in BOOLEAN, r \in BOOLEAN, w \in BOOLEAN, x \in BOOLEAN}

\* the upmask the constructor of a class passes to _reconstruct_mappings
FirstMask(cls) ==
    IF cls \in {"IntelIA32", "IntelAMD64"} THEN << <<FALSE, TRUE, TRUE>> >>
    ELSE << <<FALSE, TRUE, TRUE, TRUE>> >>

InitPerms ==
    /\ pc = "leaf"
    /\ \E cls \in {"IntelIA32", "IntelAMD64", "RISCVSV32", "RISCVSV39"},
          wp \in BOOLEAN, nxe \in BOOLEAN, mxr \in BOOLEAN :
       \E path \in SeqsUpTo(EntryFlags(cls), MaxPathLen) \ { <<>> } :
          /\ (cls \in {"IntelIA32", "IntelAMD64"} => ~mxr)
          /\ (cls \in {"RISCVSV32", "RISCVSV39"} => (wp /\ nxe))
          /\ (cls = "IntelIA32" => nxe)
          /\ args = [t |-> [cls |-> cls, wp |-> wp, nxe |-> nxe, mxr |-> mxr],
                     path |-> path]
    /\ elf_dump = NoDump
    /\ idx = 0
    /\ virtspace = NoTranslator("")
    /\ files = [i \in {} |-> <<>>]
    /\ log = <<>>
    /\ exported = -1

\* line 786: the key of the leaf the path ends in
ReconstructPermissions ==
    /\ pc = "leaf"
    /\ \E permissions \in {_reconstruct_permissions(args.t, FirstMask(args.t.cls) \o args.path)} :
          log' = <<[permissions |-> permissions]>>
    /\ pc' = "keyed"
    /\ UNCHANGED <<args, elf_dump, idx, virtspace, files, exported>>

NextPerms == ReconstructPermissions

SpecPerms == InitPerms /\ [][NextPerms]_vars

\* ------------------------------------------------------------------------
\* The load of a dump on its own: ELFDump.__read_elf_file over the LOAD
\* segments of a dump in the order of its program headers.
\* ------------------------------------------------------------------------
MaxSegments == 3

\* the LOAD segments a dump is made of: four RAM regions, the second stored
\* right after the first, the last stored right after the second without
\* being next to it in memory, and three device regions
SegmentPool ==
    { [p_vaddr |-> 0, p_memsz |-> 2, p_offset |-> 4, p_filesz |-> 2],
      [p_vaddr |-> 2, p_memsz |-> 2, p_offset |-> 6, p_filesz |-> 2],
      [p_vaddr |-> 4, p_memsz |-> 2, p_offset |-> 10, p_filesz |-> 2],
      [p_vaddr |-> 8, p_memsz |-> 2, p_offset |-> 8, p_filesz |-> 2],
      [p_vaddr |-> 12, p_memsz |-> 2, p_offset |-> 0, p_filesz |-> 0],
      [p_vaddr |-> 14, p_memsz |-> 2, p_offset |-> 0, p_filesz |-> 0],
      [p_vaddr |-> 17, p_memsz |-> 2, p_offset |-> 0, p_filesz |-> 0] }

IsRam(segm) == segm.p_filesz # 0

\* the program header tables: every order of at most MaxSegments segments
\* of the pool with some RAM among them
LoadLayouts(n) ==
    { segms \in SeqsUpTo(SegmentPool, n) :
         /\ \A i, j \in 1..Len(segms) : i # j => segms[i] # segms[j]
         /\ \E i \in 1..Len(segms) : IsRam(segms[i]) }

InitLoad ==
    /\ pc = "load_elf"
    /\ \E segms \in LoadLayouts(MaxSegments) :
          args = [segms |-> segms,
                  elf_buf |-> DumpFile(segms, <<69, 39, 7, 67, 11, 12, 0, 0, 15, 16>>),
                  machine_data |-> MachineData([Architecture |-> "386", MMUMode |-> "ia32"])]
    /\ elf_dump = NoDump
    /\ idx = 0
    /\ virtspace = NoTranslator("")
    /\ files = [i \in {} |-> <<>>]
    /\ log = <<>>
    /\ exported = -1

\* ELFDump.__init__: the index, or the exception that ends the load
ReadElfFile ==
    /\ pc = "load_elf"
    /\ \E d \in {ELFDump(args.segms, args.elf_buf, args.machine_data)} :
          /\ elf_dump' = d
          /\ pc' = IF d.err = "" THEN "loaded" ELSE "crashed"
    /\ UNCHANGED <<args, idx, virtspace, files, log, exported>>

NextLoad == ReadElfFile

SpecLoad == InitLoad /\ [][NextLoad]_vars

\* ------------------------------------------------------------------------
\* The compaction routines on their own: each applied to a sorted list of
\* intervals, and again to what it returned.  The list holds tuples
\* <<begin, end, phy, kernel triple, user triple>>; a routine takes the
\* fields it reads.
\* ------------------------------------------------------------------------
MaxCoord == 3

MaxIntervals == 3

\* the intervals within 0..n: a page at physical 0 that user code may read
\* and execute, or one at physical 1 that it may also write
CompactTuples(n) ==
    { <<b, e, phy, 0, IF phy = 0 THEN 5 ELSE 7>> :
         b \in 0..n, e \in 0..n, phy \in 0..1 }

\* intervals.sort(): the lists of at most n tuples of S in ascending order
RECURSIVE SortedLists(_, _)
SortedLists(S, n) ==
    IF n = 0 THEN { <<>> }
    ELSE LET shorter == SortedLists(S, n - 1)
             After(q) == {y \in S : Len(q) = 0 \/ TupleLess(q[Len(q)], y)}
         IN  shorter
             \cup UNION { {Append(q, x) : x \in After(q)} :
                            q \in {r \in shorter : Len(r) = n - 1} }

InitCompact ==
    /\ pc = "compact"
    /\ \E intervals \in SortedLists({t \in CompactTuples(MaxCoord) : t[1] < t[2]},
                                    MaxIntervals) \ { <<>> } :
          args = [intervals |-> intervals]
    /\ elf_dump = NoDump
    /\ idx = 0
    /\ virtspace = NoTranslator("")
    /\ files = [i \in {} |-> <<>>]
    /\ log = <<>>
    /\ exported = -1

\* what a routine returned for the list, and for its own output
Compacted(op, input, once, twice) ==
    /\ pc = "compact"
    /\ pc' = "compacted"
    /\ log' = <<[op |-> op, input |-> input, once |-> once, twice |-> twice]>>
    /\ UNCHANGED <<args, elf_dump, idx, virtspace, files, exported>>

\* the (begin, end) pairs of the list
SimpleOf(intervals) == [i \in 1..Len(intervals) |-> <<intervals[i][1], intervals[i][2]>>]

\* the (begin, (end, phy)) entries of the list
OffsetsOf(intervals) ==
    [i \in 1..Len(intervals) |-> <<intervals[i][1], intervals[i][2], intervals[i][3]>>]

\* (begin, (end, pmask)) entries as (begin, end, phy, pmask) intervals
PermissionsOf(fused) ==
    [i \in 1..Len(fused) |-> <<fused[i][1], fused[i][2], 0, fused[i][3], fused[i][4]>>]

CompactSimple ==
    \E once \in {_compact_intervals_simple(SimpleOf(args.intervals))} :
    \E twice \in {_compact_intervals_simple(once.list)} :
        Compacted("_compact_intervals_simple", SimpleOf(args.intervals), once, twice)

CompactOffsets ==
    \E once \in {_compact_intervals(OffsetsOf(args.intervals))} :
    \E twice \in {_compact_intervals(once.list)} :
        Compacted("_compact_intervals", OffsetsOf(args.intervals), once, twice)

CompactPermissions ==
    \E once \in {_compact_intervals_permissions(args.intervals)} :
    \E twice \in {_compact_intervals_permissions(PermissionsOf(once))} :
        Compacted("_compact_intervals_permissions", args.intervals,
                  [err |-> "", list |-> once], [err |-> "", list |-> twice])

NextCompact ==
    \/ CompactSimple
    \/ CompactOffsets
    \/ CompactPermissions

SpecCompact == InitCompact /\ [][NextCompact]_vars

\* ------------------------------------------------------------------------
\* IMOverlapping on its own: the map built from a list of intervals
\* (l, r, vs), then a lookup.  log holds the map, then the answer.
\* ------------------------------------------------------------------------
MaxOverlapping == 2

\* the value tuples of the intervals: virtual addresses
ValueTuples == { <<10>>, <<20>>, <<10, 30>> }

\* the lists of at most n intervals (l, r, vs) within 0..m
OverlappingLists(m, n) ==
    SeqsUpTo({ t \in { <<l, r, vs>> : l \in 0..m, r \in 0..m, vs \in ValueTuples } :
                  t[1] < t[2] },
             n)

InitOverlapping ==
    /\ pc = "build"
    /\ \E intervals \in OverlappingLists(MaxCoord, MaxOverlapping) \ { <<>> },
          x \in (-1)..(MaxCoord + 1) :
          /\ args = [intervals |-> intervals, x |-> x]
    /\ elf_dump = NoDump
    /\ idx = 0
    /\ virtspace = NoTranslator("")
    /\ files = [i \in {} |-> <<>>]
    /\ log = <<>>
    /\ exported = -1

\* IMOverlapping(intervals): the map, or the exception of the constructor
BuildOverlapping ==
    /\ pc = "build"
    /\ \E im \in {IMOverlapping(args.intervals)} :
          /\ log' = <<im>>
          /\ pc' = IF im.err = "" THEN "built" ELSE "raised"
    /\ UNCHANGED <<args, elf_dump, idx, virtspace, files, exported>>

\* the map's __getitem__ at x
LookupOverlapping ==
    /\ pc = "built"
    /\ \E res \in {IMOverlapping_getitem(log[1], args.x)} :
          log' = Append(log, [x |-> args.x, result |-> res])
    /\ pc' = "answered"
    /\ UNCHANGED <<args, elf_dump, idx, virtspace, files, exported>>

NextOverlapping ==
    \/ BuildOverlapping
    \/ LookupOverlapping

SpecOverlapping == InitOverlapping /\ [][NextOverlapping]_vars

\* ------------------------------------------------------------------------
\* The walk of the page tables step by step: log is the stack of the calls
\* of _explore_radixtree that have not returned, each with the position
\* of its for loop; virtspace.mapping collects the leaves; idx is the
\* deepest the stack has been.
\* ------------------------------------------------------------------------
WalkedMachines ==
    { [Architecture |-> "386", MMUMode |-> "ia32"],
      [Architecture |-> "x86_64", MMUMode |-> "ia64"],
      [Architecture |-> "riscv", MMUMode |-> "sv32"],
      [Architecture |-> "riscv", MMUMode |-> "sv39"] }

\* lines 443-447: the byte order of the ELF header, recorded in the note
Endiannesses == {"little", "big"}

\* translation bases: the table in frame 0 or in frame 1
WalkRegisters ==
    { [cr3 |-> 1, satp |-> 0],
      [cr3 |-> Shl(1, PageShift), satp |-> Shl(1, PageShift)] }

\* the attributes a translator has when its constructor starts the walk
WalkSettings(phy, mmu_values) ==
    IF phy.machine_data.Architecture = "riscv"
    THEN [cls |-> RISCV_derive_translator_class(phy.machine_data.MMUMode),
          dtb |-> mmu_values.satp, mphy |-> phy.machine_data.MAXPHYADDR,
          wp |-> FALSE, nxe |-> FALSE, mxr |-> FALSE, minimum_page |-> Pow2(PageShift)]
    ELSE LET cls == Intel_derive_translator_class(phy.machine_data.MMUMode).cls
             s == Intel_derive_mmu_settings(cls, mmu_values, phy.machine_data.MAXPHYADDR)
         IN  [cls |-> cls, dtb |-> s.dtb, mphy |-> s.mphy, wp |-> s.wp, nxe |-> s.nxe,
              mxr |-> FALSE, minimum_page |-> Pow2(PageShift)]

\* a call _explore_radixtree(table_addr, ..., lvl, prefix, upmask) at the
\* entry index of its loop, entry being the last word it unpacked
Call(table_addr, lvl, pfx, upmask) ==
    [table_addr |-> table_addr, lvl |-> lvl, prefix |-> pfx, upmask |-> upmask,
     index |-> 0, entry |-> -1]

InitWalk ==
    /\ pc = "walk"
    /\ \E m \in WalkedMachines, endianness \in Endiannesses, segms \in Layouts,
          mmu_values \in WalkRegisters :
       \E words \in TableWords(m) :
       \E phy \in {ELFDump(segms, DumpFile(segms, Memory(words)),
                           [MachineData(m) EXCEPT !.Endianness = endianness])} :
       \E t \in {WalkSettings(phy, mmu_values)} :
          /\ args = [t |-> t]
          /\ elf_dump = phy
          /\ log = <<Call(t.dtb, 0, 0, FirstMask(t.cls))>>
          /\ virtspace = [NoTranslator("") EXCEPT !.cls = t.cls, !.dtb = t.dtb]
    /\ idx = 1
    /\ files = [i \in {} |-> <<>>]
    /\ exported = -1

\* line 762: the table of a call
TableOf(f) == get_data(elf_dump, f.table_addr, table_sizes(args.t.cls, f.lvl))

\* lines 763-767 and the end of the for loop: the call returns
ReturnFromCall ==
    /\ pc = "walk"
    /\ \E f \in {log[Len(log)]} :
       \E table \in {TableOf(f)} :
          /\ table.err = ""
          /\ f.index >= Len(table.data)
    /\ log' = SubSeq(log, 1, Len(log) - 1)
    /\ pc' = IF Len(log) = 1 THEN "walked" ELSE "walk"
    /\ UNCHANGED <<args, elf_dump, idx, virtspace, files, exported>>

\* lines 781-796 for the decoded entry e of the call f
WalkLeaf(f, f2, e, virt_addr, pmask) ==
    \E r \in {explore_leaf(args.t, e, virt_addr, _reconstruct_permissions(args.t, pmask),
                           in_ram(elf_dump, e.addr, e.size),
                           in_mmd(elf_dump, e.addr, e.size))} :
        /\ pc' = IF r.err = "" THEN "walk" ELSE "raised"
        /\ log' = [log EXCEPT ![Len(log)] = f2]
        /\ virtspace' = [virtspace EXCEPT !.err = r.err, !.mapping = @ \o r.leaves]
        /\ idx' = idx

\* lines 798-806: the call for the table the entry e points to
WalkPointer(f, f2, e, virt_addr, pmask) ==
    /\ pc' = "walk"
    /\ log' = Append([log EXCEPT ![Len(log)] = f2], Call(e.addr, f.lvl + 1, virt_addr, pmask))
    /\ idx' = IF Len(log) + 1 > idx THEN Len(log) + 1 ELSE idx
    /\ virtspace' = virtspace

\* lines 769-806 for the entry with number f.index, which unpacks to entry
WalkEntry(f, entry) ==
    \E e \in {_read_entry(args.t, f.index, entry, f.lvl)} :
    \E f2 \in {[f EXCEPT !.index = f.index + 1, !.entry = entry]} :
    \E virt_addr \in {BitOr(f.prefix, Shl(f.index, shifts(args.t.cls, f.lvl)))} :
        IF ~e.valid
        THEN /\ pc' = "walk"
             /\ log' = [log EXCEPT ![Len(log)] = f2]
             /\ UNCHANGED <<idx, virtspace>>
        ELSE IF f.lvl = total_levels(args.t.cls) - 1 \/ e.size # 0
        THEN WalkLeaf(f, f2, e, virt_addr, f.upmask \o e.pmask)
        ELSE WalkPointer(f, f2, e, virt_addr, f.upmask \o e.pmask)

\* one turn of the for loop of the innermost call, or the exception of
\* get_data at line 762
ExploreEntry ==
    /\ pc = "walk"
    /\ \E f \in {log[Len(log)]} :
       \E table \in {TableOf(f)} :
          IF table.err # ""
          THEN /\ pc' = "raised"
               /\ virtspace' = [virtspace EXCEPT !.err = table.err]
               /\ UNCHANGED <<log, idx>>
          ELSE /\ f.index < Len(table.data)
               /\ WalkEntry(f, iter_unpack(unpack_fmt(args.t.cls),
                                           StoredBytes(elf_dump, table.data[f.index + 1])))
    /\ UNCHANGED <<args, elf_dump, files, exported>>

NextWalk ==
    \/ ReturnFromCall
    \/ ExploreEntry

\* the interpreter goes on with a call as long as it has not returned
SpecWalk == InitWalk /\ [][NextWalk]_vars /\ WF_vars(NextWalk)

\* ------------------------------------------------------------------------
\* Reading an ELF file back
\* ------------------------------------------------------------------------
ReadField(file, pos, length, endianness) ==
    from_bytes(SubSeq(file, pos + 1, pos + length), endianness)

ReadPhdr(file, at, en) ==
    [p_type |-> ReadField(file, at, 4, en),
     p_flags |-> ReadField(file, at + 4, 4, en),
     p_offset |-> ReadField(file, at + 8, 8, en),
     p_vaddr |-> ReadField(file, at + 16, 8, en),
     p_paddr |-> ReadField(file, at + 24, 8, en),
     p_filesz |-> ReadField(file, at + 32, 8, en),
     p_memsz |-> ReadField(file, at + 40, 8, en)]

\* the program headers of a file: e_phnum entries of e_phentsize bytes at e_phoff
ProgramHeaders(file, en) ==
    [k \in 1..ReadField(file, 56, 2, en) |->
        ReadPhdr(file, ReadField(file, 32, 8, en) + (k - 1) * ReadField(file, 54, 2, en), en)]

\* the program headers of the file the last step exported
ExportedHeaders == ProgramHeaders(files[exported], elf_dump.machine_data.Endianness)

\* the element of the file at position o, -1 after its end
FileAt(file, o) == IF 0 <= o /\ o < Len(file) THEN file[o + 1] ELSE -1

\* the dump's content at the physical address paddr of RAM
DumpAt(phy, paddr) == phy.elf_buf[IMOffsets_getitem(phy.p2o, paddr) + 1]

Covers(h, v) == h.p_vaddr <= v /\ v < h.p_vaddr + h.p_memsz

CoverCount(hs, v) == Cardinality({k \in 1..Len(hs) : Covers(hs[k], v)})

\* a mapping entry of a user permission that is backed by RAM
UserRam(x) == x.perm[2] # 0 /\ x.ram /\ ~x.mmd

HasUserRam(mapping) == \E i \in 1..Len(mapping) : UserRam(mapping[i])

AddressesOf(x) == x.virt..(x.virt + x.size - 1)

UserRamAddresses(mapping) ==
    UNION {AddressesOf(mapping[i]) : i \in {j \in 1..Len(mapping) : UserRam(mapping[j])}}

LoadedAddresses(hs) ==
    UNION {hs[k].p_vaddr..(hs[k].p_vaddr + hs[k].p_memsz - 1) : k \in 1..Len(hs)}

RECURSIVE SumFilesz(_)
SumFilesz(hs) == IF Len(hs) = 0 THEN 0 ELSE hs[1].p_filesz + SumFilesz(Tail(hs))

\* ------------------------------------------------------------------------
\* C1
\* ------------------------------------------------------------------------
RoundTrip(phy, file, hs, x) ==
    \A v \in AddressesOf(x) :
        \A k \in 1..Len(hs) :
            Covers(hs[k], v)
            => FileAt(file, hs[k].p_offset + (v - hs[k].p_vaddr))
               = DumpAt(phy, x.phys + (v - x.virt))

RoundTripAll(phy, mapping, file, hs) ==
    \A i \in 1..Len(mapping) : UserRam(mapping[i]) => RoundTrip(phy, file, hs, mapping[i])

\* C1: after an export, for every virtual address v of a RAM-backed mapping
\* entry with a non-zero user triple, the file holds at p_offset + v - p_vaddr
\* of the PT_LOAD covering v the dump's content at p2o(phys_of(v)), also when
\* the segment starts at a dump offset that is already in the offset cache
\* and extends past the data written for it.
C1_ByteRoundTrip ==
    exported # -1
    => RoundTripAll(elf_dump, virtspace.mapping, files[exported], ExportedHeaders)

\* ------------------------------------------------------------------------
\* C2
\* ------------------------------------------------------------------------
OneLoadPerAddress(mapping, hs) ==
    /\ \A v \in UserRamAddresses(mapping) : CoverCount(hs, v) = 1
    /\ \A v \in LoadedAddresses(hs) : CoverCount(hs, v) = 1
    /\ LoadedAddresses(hs) \subseteq UserRamAddresses(mapping)

\* C2: in an exported file every user-accessible RAM-backed virtual address
\* of the mapping lies in exactly one PT_LOAD range, no two PT_LOAD ranges
\* overlap, and a PT_LOAD covers only virtual addresses of user-accessible
\* RAM-backed entries of the mapping.
C2_OneLoadPerAddress ==
    exported # -1 => OneLoadPerAddress(virtspace.mapping, ExportedHeaders)

\* an export with several PT_LOADs next to kernel-only entries
C2_Witness ==
    /\ exported # -1
    /\ Len(ExportedHeaders) >= 2
    /\ \E i \in 1..Len(virtspace.mapping) : virtspace.mapping[i].perm[2] = 0
    /\ Cardinality(UserRamAddresses(virtspace.mapping)) >= 4

\* ------------------------------------------------------------------------
\* C3
\* ------------------------------------------------------------------------
\* C3: every process whose walk yields a user-accessible RAM-backed page is
\* constructed and exported without an exception (the file system failing
\* aside), also when its page tables map no kernel-only page.
C3_UserPagesAreExported ==
    \A k \in 1..Len(log) :
        IF log[k].stage = "get_virtspace"
        THEN ~HasUserRam(get_virtspace(elf_dump, args.mmu_data[log[k].idx + 1]).mapping)
        ELSE log[k].err \in {"", "IOError"}

\* ------------------------------------------------------------------------
\* C4
\* ------------------------------------------------------------------------
NoKernelNoDevice(mapping, hs, e_phoff) ==
    /\ \A k \in 1..Len(hs) :
          /\ hs[k].p_flags # 0
          /\ \E i \in 1..Len(mapping) : mapping[i].perm[2] = hs[k].p_flags
    /\ \A i \in 1..Len(mapping) :
          (mapping[i].perm[2] = 0 \/ mapping[i].mmd)
          => \A v \in AddressesOf(mapping[i]) : CoverCount(hs, v) = 0
    /\ e_phoff - e_ehsize <= SumFilesz(hs)

\* C4: in an exported file no PT_LOAD covers an address of a kernel-only
\* entry (user triple 0) or of a memory-mapped-device entry, the segment data
\* is no longer than the PT_LOADs account for, and every p_flags is a
\* non-zero user triple of the mapping.
C4_NoKernelNoDevice ==
    exported # -1
    => NoKernelNoDevice(virtspace.mapping, ExportedHeaders,
                        ReadField(files[exported], 32, 8, elf_dump.machine_data.Endianness))

\* an export of a mapping that holds a kernel-only entry and a device entry
C4_Witness ==
    /\ exported # -1
    /\ Len(ExportedHeaders) >= 1
    /\ \E i \in 1..Len(virtspace.mapping) : virtspace.mapping[i].perm[2] = 0
    /\ \E i \in 1..Len(virtspace.mapping) :
          virtspace.mapping[i].mmd /\ virtspace.mapping[i].perm[2] # 0

\* ------------------------------------------------------------------------
\* C5
\* ------------------------------------------------------------------------
AttemptsInOrder ==
    /\ \A k \in 1..Len(log) : log[k].idx = k - 1
    /\ Len(log) <= Len(args.mmu_data)
    /\ pc = "done" => Len(log) = Len(args.mmu_data)
    /\ \A k \in DOMAIN files :
          /\ k + 1 <= Len(log)
          /\ log[k + 1].stage = "export"
          /\ log[k + 1].err # "IOError"

\* C5: a failure of process i does not keep the processes after it from
\* being attempted: the attempts are those of the indexes 0, 1, .. in list
\* order, one each, the loop reaches its end with every index attempted, and
\* the file of index k is the one process k's export created.
C5_EveryProcessAttempted == []AttemptsInOrder /\ (pc = "loop" ~> pc = "done")

\* a run in which process 0 failed and process 1 was exported after it
C5_Witness ==
    /\ pc = "done"
    /\ Len(log) = 2
    /\ log[1].err # ""
    /\ log[2].err = ""
    /\ DOMAIN files = {1}

\* ------------------------------------------------------------------------
\* C6
\* ------------------------------------------------------------------------
HasUserEntries(mapping) ==
    \E i \in 1..Len(mapping) : mapping[i].perm[2] # 0 /\ ~mapping[i].mmd

\* t is the translator of the attempt entry, from its constructor
RaisesIffEmpty(t, entry) ==
    t.cls # ""
    => /\ (t.err # "") <=> ~HasUserEntries(t.mapping)
       /\ t.err # "" => (entry.stage = "get_virtspace" /\ entry.idx \notin DOMAIN files)

\* C6: _reconstruct_mappings raises exactly when the walk produced no
\* user-accessible entry that is not a memory-mapped device, and when it
\* raises the process is skipped: the export is not reached and no file is
\* created for it.
C6_RaisesExactlyWhenEmpty ==
    \A k \in 1..Len(log) :
        RaisesIffEmpty(get_virtspace(elf_dump, args.mmu_data[log[k].idx + 1]), log[k])

\* ------------------------------------------------------------------------
\* C7
\* ------------------------------------------------------------------------
\* C7: once an architecture tag that get_virtspace does not recognise, or an
\* unsupported MMU mode, has made an attempt fail, no further process is
\* attempted.
C7_UnknownArchitectureIsFatal ==
    \A k \in 1..Len(log) :
        log[k].err \in {"Unknown architecture", "NotImplementedError"}
        => (k = Len(log) /\ pc # "export")

\* ------------------------------------------------------------------------
\* C8
\* ------------------------------------------------------------------------
SupportedMode(md) ==
    IF md.Architecture = "riscv" THEN md.MMUMode \in {"sv32", "sv39"}
    ELSE md.MMUMode \in {"ia32", "ia64"}

\* C8: for a dump of an Intel or RISC-V machine whose MMU mode is not one of
\* ia32 / ia64, respectively sv32 / sv39, the factory raises: no translator
\* is constructed and no export is reached.
C8_UnknownModeRaises ==
    (elf_dump.machine_data.Architecture \in {"386", "x86_64", "riscv"}
     /\ ~SupportedMode(elf_dump.machine_data))
    => /\ virtspace.cls = ""
       /\ pc # "export"
       /\ \A k \in 1..Len(log) : log[k].stage = "get_virtspace"

\* ------------------------------------------------------------------------
\* C9
\* ------------------------------------------------------------------------
PhnumStored(n, e_phoff, header, section, en) ==
    IF n <= 65535
    THEN /\ ReadField(header, 56, 2, en) = n
         /\ ReadField(header, 40, 8, en) = 0
         /\ ReadField(header, 60, 2, en) = 0
         /\ section = <<>>
    ELSE /\ ReadField(header, 56, 2, en) = 65535
         /\ ReadField(header, 58, 2, en) = 64
         /\ ReadField(header, 60, 2, en) = 1
         /\ ReadField(header, 40, 8, en) = e_phoff + n * e_phentsize
         /\ Len(section) = 64
         /\ ReadField(section, 44, 4, en) = n

\* C9: a segment count n <= 65535 is stored in e_phnum and no section header
\* is written (e_shoff and e_shnum stay 0); for n >= 65536 e_phnum is 0xFFFF,
\* e_shentsize 0x40, e_shnum 1, e_shoff the position after the program
\* headers, and the 0x40 bytes written there hold n in sh_info.
C9_PhnumStored ==
    pc = "patched"
    => PhnumStored(args.e_phnum, args.e_phoff, files[0].header, files[0].section,
                   args.endianness)

\* the header patched for the first count that does not fit e_phnum
C9_Witness == pc = "patched" /\ args.e_phnum = 65536 /\ Len(files[0].section) = 64

\* ------------------------------------------------------------------------
\* C10
\* ------------------------------------------------------------------------
HeaderDescribes(h, seg, mapping) ==
    /\ h.p_type = 1
    /\ h.p_flags = seg[1]
    /\ h.p_vaddr = seg[2]
    /\ h.p_filesz = seg[3] - seg[2]
    /\ h.p_memsz = seg[3] - seg[2]
    /\ \E i \in 1..Len(mapping) :
          /\ UserRam(mapping[i])
          /\ mapping[i].perm[2] = h.p_flags
          /\ mapping[i].virt = h.p_vaddr
          /\ mapping[i].phys = h.p_paddr

HeadersDescribe(hs, segs, mapping) ==
    /\ Len(hs) = Len(segs)
    /\ \A k \in 1..Len(segs) : HeaderDescribes(hs[k], segs[k], mapping)

\* C10: every program header of an exported file describes its segment:
\* p_type is 1, p_flags the user triple of the segment's group, p_vaddr the
\* segment's first virtual address, p_filesz and p_memsz its length, and
\* p_paddr the physical address the walk maps p_vaddr to.
C10_HeaderDescribesSegment ==
    exported # -1
    => HeadersDescribe(ExportedHeaders,
                       export_segments(elf_dump, virtspace.mapping,
                                       MappingKeys(virtspace.mapping)),
                       virtspace.mapping)

\* an export with a PT_LOAD fused from two pages whose first byte is not the
\* first byte of RAM
C10_Witness ==
    /\ exported # -1
    /\ \E k \in 1..Len(ExportedHeaders) :
          /\ ExportedHeaders[k].p_paddr > 0
          /\ ExportedHeaders[k].p_filesz > Pow2(PageShift)

\* ------------------------------------------------------------------------
\* C11
\* ------------------------------------------------------------------------
\* what the second loop of the last export wrote: its segments and data
ExportedWrite ==
    export_write(elf_dump, virtspace.minimum_page,
                 export_segments(elf_dump, virtspace.mapping,
                                 MappingKeys(virtspace.mapping)),
                 1, e_ehsize, <<>>, <<>>, <<>>, <<>>)

HeaderLayout(file, hs, w, en) ==
    /\ ReadField(file, 32, 8, en) = e_ehsize + Len(w.data)
    /\ ReadField(file, 56, 2, en) = Len(w.segments)
    /\ ReadField(file, 32, 8, en) + Len(w.segments) * e_phentsize <= Len(file)
    /\ \A k \in 1..Len(hs) :
          /\ hs[k].p_type = 1
          /\ e_ehsize <= hs[k].p_offset
          /\ hs[k].p_offset + hs[k].p_filesz <= ReadField(file, 32, 8, en)

\* C11: in an exported file e_phoff is 0x40 plus the number of segment bytes
\* written, the file holds at e_phoff as many program header entries as
\* segments were recorded, and the file range [p_offset, p_offset + p_filesz)
\* of every PT_LOAD lies inside the segment data [0x40, e_phoff).
C11_DataBeforeHeaders ==
    exported # -1
    => HeaderLayout(files[exported], ExportedHeaders, ExportedWrite,
                    elf_dump.machine_data.Endianness)

\* the first two parts of C11 alone, which the writer keeps
C11_PhoffAndCount ==
    exported # -1
    => /\ ReadField(files[exported], 32, 8, elf_dump.machine_data.Endianness)
          = e_ehsize + Len(ExportedWrite.data)
       /\ Len(ExportedHeaders) = Len(ExportedWrite.segments)

\* ------------------------------------------------------------------------
\* C12
\* ------------------------------------------------------------------------
NoDuplicates(s) == \A i, j \in 1..Len(s) : s[i] = s[j] => i = j

\* segments of equal length at one dump offset share their p_offset
AliasesShareOffset(segments) ==
    \A i, j \in 1..Len(segments) :
        (segments[i][4] = segments[j][4]
         /\ segments[i][3] - segments[i][2] = segments[j][3] - segments[j][2])
        => segments[i][5] = segments[j][5]

\* C12: during an export every minimum_page-aligned page of the dump is
\* appended to the file at most once, whatever the segments are (a segment
\* that starts at an offset not yet in the cache does not write again the
\* pages an earlier segment wrote), and two segments of equal length at the
\* same dump offset get the same p_offset.
C12_PagesWrittenOnce ==
    exported # -1
    => /\ NoDuplicates(ExportedWrite.pages)
       /\ AliasesShareOffset(ExportedWrite.segments)

\* ------------------------------------------------------------------------
\* C13
\* ------------------------------------------------------------------------
\* x lies in an interval of the map
InInterval(im, x) == \E i \in 1..Len(im) : im[i][1] <= x /\ x < im[i][2]

\* the queried address is in RAM and the query is for one byte
QueriedRamByte == args.size = 1 /\ InInterval(elf_dump.p2o, args.paddr)

\* C13: for every physical address P inside a RAM interval of the loaded
\* dump, the last byte of the last interval included, in_ram(P, 1) is True
\* and get_data(P, 1) is the one byte elf_buf[p2o[P]].
C13_RamByteIsRead ==
    (pc = "answered" /\ QueriedRamByte)
    => /\ log[1].op = "in_ram" => (log[1].err = "" /\ log[1].ok)
       /\ log[1].op = "get_data"
          => /\ log[1].err = ""
             /\ log[1].list
                = <<elf_dump.elf_buf[IMOffsets_getitem(elf_dump.p2o, args.paddr) + 1]>>

\* get_data answered for the last byte of the last RAM interval
C13_Witness ==
    /\ pc = "answered"
    /\ log[1].op = "get_data"
    /\ QueriedRamByte
    /\ args.paddr + 1 = elf_dump.p2o[Len(elf_dump.p2o)][2]
    /\ Len(log[1].list) = 1

\* ------------------------------------------------------------------------
\* C17
\* ------------------------------------------------------------------------
\* how far the addresses from x on lie in intervals of the map, size at most
Run(im, x, size) ==
    CHOOSE n \in 0..size :
        /\ \A a \in x..(x + n - 1) : InInterval(im, a)
        /\ n = size \/ ~InInterval(im, x + n)

RECURSIVE SumLengths(_)
SumLengths(segments) ==
    IF Len(segments) = 0 THEN 0 ELSE segments[1][2] + SumLengths(Tail(segments))

ContiguousFrom(segments, x) ==
    /\ Len(segments) > 0 => segments[1][1] = x
    /\ \A k \in 1..(Len(segments) - 1) :
          segments[k + 1][1] = segments[k][1] + segments[k][2]

\* C17: IMOffsets.contains(x, size) returns for every x and every size >= 1
\* a pair (achieved_size, segments), never anything else: achieved_size is at
\* most size, the segments are contiguous from x and their lengths sum to
\* achieved_size, and achieved_size is less than size exactly when the span
\* from x meets a hole, an interval that does not continue the previous one,
\* or the end of the last interval.
C17_ContainsReturnsPair ==
    (pc = "answered" /\ log[1].op = "IMOffsets.contains")
    => /\ ~log[1].none
       /\ log[1].n <= args.size
       /\ ContiguousFrom(log[1].list, args.paddr)
       /\ SumLengths(log[1].list) = log[1].n
       /\ (log[1].n < args.size) <=> (Run(elf_dump.p2o, args.paddr, args.size) < args.size)

\* ------------------------------------------------------------------------
\* C18
\* ------------------------------------------------------------------------
\* the request [x, x + size) starts in an interval and ends exactly at its end
EndsAtEnd(im, x, size) ==
    \E i \in 1..Len(im) : im[i][1] <= x /\ x < im[i][2] /\ x + size = im[i][2]

\* the request starts in an interval and ends before the interval's last byte
EndsBeforeEnd(im, x, size) ==
    \E i \in 1..Len(im) : im[i][1] <= x /\ x < im[i][2] /\ x + size < im[i][2]

MissAtEnd(im, x, size, hit) ==
    /\ EndsAtEnd(im, x, size) => ~hit
    /\ hit <=> EndsBeforeEnd(im, x, size)

RangeInInterval(im, x, size) ==
    \E i \in 1..Len(im) : im[i][1] <= x /\ x + size <= im[i][2]

\* C19: in_mmd(p, size) is True exactly when the whole range [p, p + size)
\* lies inside one device interval, a range whose last byte is the
\* interval's last byte (end - 1) included.
C19_InMmdWholeRange ==
    (pc = "answered" /\ log[1].op = "in_mmd")
    => (log[1].ok <=> RangeInInterval(elf_dump.p2mmd, args.paddr, args.size))

\* ------------------------------------------------------------------------
\* C15
\* ------------------------------------------------------------------------
\* the top implemented bit of an AMD64 virtual address
TopBit == shifts("IntelAMD64", 0)

\* the bits above the top implemented bit all equal it
Canonical(v) ==
    IF Bit(v, TopBit) THEN BitOr(v, prefix("IntelAMD64")) = v /\ v < Pow2(TopBit + 4)
    ELSE v < Pow2(TopBit)

\* v is the address the walk computed (its implemented bits), the prefix
\* OR'ed in when the top bit is set and nothing changed otherwise
FinalizedOnce(v) ==
    LET raw == v % Pow2(TopBit + 1)
    IN  v = IF Bit(raw, TopBit) THEN BitOr(prefix("IntelAMD64"), raw) ELSE raw

\* C15: on AMD64 every virtual address of the walker's mapping, and so every
\* exported p_vaddr, is canonical (the bits above bit 47 all equal bit 47):
\* an address with the top bit clear is stored as the walk computed it, one
\* with the top bit set has the prefix OR'ed in, once.
C15_CanonicalAddresses ==
    virtspace.cls = "IntelAMD64"
    => /\ \A i \in 1..Len(virtspace.mapping) :
             /\ Canonical(virtspace.mapping[i].virt)
             /\ FinalizedOnce(virtspace.mapping[i].virt)
       /\ exported # -1
          => \A k \in 1..Len(ExportedHeaders) : Canonical(ExportedHeaders[k].p_vaddr)

\* an AMD64 export with a PT_LOAD in the upper half and one in the lower half
C15_Witness ==
    /\ virtspace.cls = "IntelAMD64"
    /\ exported # -1
    /\ \E k \in 1..Len(ExportedHeaders) : Bit(ExportedHeaders[k].p_vaddr, TopBit)
    /\ \E k \in 1..Len(ExportedHeaders) : ~Bit(ExportedHeaders[k].p_vaddr, TopBit)

\* ------------------------------------------------------------------------
\* C16
\* ------------------------------------------------------------------------
\* o2v[offset] holds the virtual address virt
InO2v(o2v, offset, virt) ==
    \E i \in 1..Len(IMOverlapping_getitem(o2v, offset)) :
        IMOverlapping_getitem(o2v, offset)[i] = virt

\* the entry x of reverse_mapping is in o2v exactly when its key is a user key
UserEntriesOnly(phy, o2v, x) ==
    (x.ram /\ ~x.mmd /\ IMOffsets_getitem(phy.p2o, x.phys) # -1)
    => (InO2v(o2v, IMOffsets_getitem(phy.p2o, x.phys), x.virt) <=> x.perm[2] # 0)

\* C16: the offset-to-virtual map of a constructed translator holds exactly
\* the reverse-mapping entries whose permission key is user-accessible (user
\* triple not 0) and whose physical address resolves to a file offset; the
\* entries of kernel-only keys are not in it.
C16_O2vHoldsUserEntries ==
    (virtspace.cls # "" /\ virtspace.err = "")
    => \A i \in 1..Len(virtspace.mapping) :
           UserEntriesOnly(elf_dump, virtspace.o2v, virtspace.mapping[i])

\* what the loop of line 961 keeps instead: the entries of the kernel-only keys
O2vHoldsKernelEntries ==
    (virtspace.cls # "" /\ virtspace.err = "")
    => \A i \in 1..Len(virtspace.mapping) :
           (virtspace.mapping[i].ram /\ ~virtspace.mapping[i].mmd
            /\ IMOffsets_getitem(elf_dump.p2o, virtspace.mapping[i].phys) # -1)
           => (InO2v(virtspace.o2v,
                     IMOffsets_getitem(elf_dump.p2o, virtspace.mapping[i].phys),
                     virtspace.mapping[i].virt)
               <=> virtspace.mapping[i].perm[2] = 0)

\* ------------------------------------------------------------------------
\* C14
\* ------------------------------------------------------------------------
\* every byte of [paddr, paddr + size) is in RAM
RamResident(phy, paddr, size) ==
    \A a \in paddr..(paddr + size - 1) : InInterval(phy.p2o, a)

\* the addresses a table pointer can hold
TableAddresses == {Shl(pfn, PageShift) : pfn \in 0..(Pow2(PfnBits) - 1)}

\* the walk of a table that is not RAM-resident adds nothing and raises nothing
DroppedSilently(t, phy) ==
    \A table_addr \in TableAddresses, lvl \in 0..(total_levels(t.cls) - 1) :
        ~RamResident(phy, table_addr, table_sizes(t.cls, lvl))
        => _explore_radixtree(t, phy, table_addr, lvl, 0, <<>>) = NoLeaves

\* C14: a table that is not RAM-resident (its address is outside RAM, or its
\* table_sizes[lvl] bytes are only partly in RAM, as for a table that starts
\* in the last RAM interval and runs past its end) makes the walker drop the
\* subtree under that entry and nothing else: no attempt ends with the
\* exception of the table read, and the walk of such a table is empty and
\* leaves the entries before and after it as they are.
C14_MissingTableIsDropped ==
    /\ \A k \in 1..Len(log) : log[k].err # CannotUnpack
    /\ pc = "export" => DroppedSilently(virtspace, elf_dump)

\* ------------------------------------------------------------------------
\* C20
\* ------------------------------------------------------------------------
\* a forward entry is in RAM or a device, its flags are those of in_ram and
\* in_mmd, and it has a reverse entry exactly when it is RAM and no device
LeafRecorded(phy, x, reverse) ==
    /\ x.ram \/ x.mmd
    /\ x.ram <=> RamResident(phy, x.phys, x.size)
    /\ x.mmd <=> in_mmd(phy, x.phys, x.size)
    /\ (\E j \in 1..Len(reverse) : reverse[j] = x) <=> (x.ram /\ ~x.mmd)
    /\ ~x.mmd => \E j \in 1..Len(reverse) : reverse[j] = x

\* C20: a valid leaf whose physical range is neither fully in RAM nor in the
\* device space is dropped without an exception and the other entries are
\* kept; every other leaf is one entry (virt, page_size, phys, is_mmio) of
\* the forward mapping under its key, and is in the reverse mapping under
\* that key exactly when it is in RAM and not a device, so that the reverse
\* entries and the forward entries with is_mmio false are the same.
C20_LeafIsRecordedOrDropped ==
    /\ \A k \in 1..Len(log) : log[k].err # NotSubscriptable
    /\ pc = "export"
       => /\ \A i \in 1..Len(virtspace.mapping) :
                LeafRecorded(elf_dump, virtspace.mapping[i], ReverseLeaves(virtspace.mapping))
          /\ \A j \in 1..Len(ReverseLeaves(virtspace.mapping)) :
                ~ReverseLeaves(virtspace.mapping)[j].mmd

\* ------------------------------------------------------------------------
\* C21
\* ------------------------------------------------------------------------
\* the entries of the path: is one kernel-only (U = 0), are all writable,
\* has none NX set
AnyKernel(path) == \E i \in 1..Len(path) : path[i][1]

AllWritable(path) == \A i \in 1..Len(path) : path[i][2]

NoneNX(path) == \A i \in 1..Len(path) : path[i][3]

\* the X bit of an Intel key: 1 on IA-32, on AMD64 no NX on the path if NXE
IntelX(t, path) == IF t.cls = "IntelIA32" THEN TRUE ELSE (IF t.nxe THEN NoneNX(path) ELSE TRUE)

IntelKey(t, path) ==
    IF AnyKernel(path)
    THEN <<Triple(TRUE, IF t.wp THEN AllWritable(path) ELSE TRUE, IntelX(t, path)), 0>>
    ELSE <<0, Triple(TRUE, AllWritable(path), IntelX(t, path))>>

\* C21: on IA-32 and AMD64 the permission key of a leaf reached through the
\* entries e_0..e_k is (kernel triple, 0) if a level has U = 0, with R = 1,
\* W = all levels writable if WP else 1, X = 1 on IA-32 and no level with NX
\* if NXE else 1 on AMD64; otherwise (0, user triple) with R = 1, W = all
\* levels writable and X likewise.  Exactly one triple of a key is non-zero.
C21_IntelPermissionKey ==
    (pc = "keyed" /\ args.t.cls \in {"IntelIA32", "IntelAMD64"})
    => /\ log[1].permissions = IntelKey(args.t, args.path)
       /\ (log[1].permissions[1] = 0) # (log[1].permissions[2] = 0)

\* the key of an AMD64 user leaf under a read-only, no-execute upper entry
C21_Witness ==
    /\ pc = "keyed"
    /\ args.t.cls = "IntelAMD64"
    /\ args.t.nxe
    /\ Len(args.path) = 2
    /\ args.path[1] = <<FALSE, FALSE, FALSE>>
    /\ args.path[2] = <<FALSE, TRUE, TRUE>>
    /\ log[1].permissions = <<0, 4>>

\* ------------------------------------------------------------------------
\* C22
\* ------------------------------------------------------------------------
RiscvKey(t, leaf) ==
    IF leaf[1]
    THEN <<Triple(leaf[2] \/ (t.mxr /\ leaf[4]), leaf[3], leaf[4]), 0>>
    ELSE <<0, Triple(leaf[2] \/ (t.mxr /\ leaf[4]), leaf[3], leaf[4])>>

\* C22: on RISC-V Sv32 and Sv39 the permission key of a leaf depends on the
\* leaf entry's own U/R/W/X bits and on MXR only, not on the entries above
\* it: the triple (R or (MXR and X), W, X) is in the user slot when U = 1
\* and in the kernel slot when U = 0, and the other slot is 0.
C22_RiscvPermissionKey ==
    (pc = "keyed" /\ args.t.cls \in {"RISCVSV32", "RISCVSV39"})
    => log[1].permissions = RiscvKey(args.t, args.path[Len(args.path)])

\* the key of a user execute-only leaf under a kernel-only pointer, with MXR
C22_Witness ==
    /\ pc = "keyed"
    /\ args.t.cls = "RISCVSV39"
    /\ args.t.mxr
    /\ Len(args.path) = 2
    /\ args.path[1][1]
    /\ args.path[2] = <<FALSE, FALSE, FALSE, TRUE>>
    /\ log[1].permissions = <<0, 5>>

\* ------------------------------------------------------------------------
\* C23
\* ------------------------------------------------------------------------
\* the intervals of a map follow one another by start without overlapping
StrictlyOrdered(list) ==
    \A i \in 1..(Len(list) - 1) :
        /\ list[i][1] < list[i + 1][1]
        /\ list[i][2] <= list[i + 1][1]

\* the fusion rules: adjacent, and for a map to offsets offset-contiguous
FusableSimple(a, b) == a[2] = b[1]

FusableOffsets(a, b) == a[2] = b[1] /\ a[3] + (a[2] - a[1]) = b[3]

MaximallyFusedSimple(list) ==
    \A i \in 1..(Len(list) - 1) : ~FusableSimple(list[i], list[i + 1])

MaximallyFusedOffsets(list) ==
    \A i \in 1..(Len(list) - 1) : ~FusableOffsets(list[i], list[i + 1])

\* C23: after the load of a dump, whatever the order of its LOAD segments,
\* each physical map (p2o, o2p, the device map) is strictly ordered by
\* start, without overlap, and maximally fused: no two consecutive
\* intervals satisfy the map's fusion rule.
C23_PhysicalMapsFused ==
    pc = "loaded"
    => /\ StrictlyOrdered(elf_dump.p2o) /\ MaximallyFusedOffsets(elf_dump.p2o)
       /\ StrictlyOrdered(elf_dump.o2p) /\ MaximallyFusedOffsets(elf_dump.o2p)
       /\ StrictlyOrdered(elf_dump.p2mmd) /\ MaximallyFusedSimple(elf_dump.p2mmd)

\* what holds of the maps for every order of the segments
C23_PhysicalMapsOrdered ==
    pc = "loaded"
    => /\ StrictlyOrdered(elf_dump.p2o)
       /\ StrictlyOrdered(elf_dump.o2p)
       /\ StrictlyOrdered(elf_dump.p2mmd)

\* program headers in ascending order of address and of offset
Ascending(segms) ==
    \A i, j \in 1..Len(segms) :
        (i < j /\ IsRam(segms[i]) = IsRam(segms[j]))
        => /\ segms[i].p_vaddr < segms[j].p_vaddr
           /\ segms[i].p_offset <= segms[j].p_offset

\* the maps of a dump whose segments are in ascending order are fused
C23_AscendingMapsFused ==
    (pc = "loaded" /\ Ascending(args.segms))
    => /\ MaximallyFusedOffsets(elf_dump.p2o)
       /\ MaximallyFusedOffsets(elf_dump.o2p)
       /\ MaximallyFusedSimple(elf_dump.p2mmd)

\* ------------------------------------------------------------------------
\* C24
\* ------------------------------------------------------------------------
\* the leaves _reconstruct_mappings hands to the compaction: user
\* accessible and not in the device space
InputLeaves(t) ==
    {i \in 1..Len(t.mapping) : t.mapping[i].perm[2] # 0 /\ ~t.mapping[i].mmd}

\* the intervals of the V->O map that hold the virtual address v
Holding(v2o, v) == {j \in 1..Len(v2o) : v2o[j][1] <= v /\ v < v2o[j][2]}

\* every page of an input leaf is in exactly one interval of the map, at the
\* offset of the leaf's physical page
LeafKept(phy, t, i) ==
    LET x == t.mapping[i]
    IN  /\ \A v \in x.virt..(x.virt + x.size - 1) : Cardinality(Holding(t.v2o, v)) = 1
        /\ \A j \in Holding(t.v2o, x.virt) :
              t.v2o[j][3] + (x.virt - t.v2o[j][1]) = IMOffsets_getitem(phy.p2o, x.phys)

\* C24: in the V->O map _compact_intervals_virt_offset makes of the sorted
\* interval list every interval (b, e, off) has b < e, the intervals are
\* strictly ordered and do not overlap, no interval is followed by one that
\* starts at e with the offset off + (e - b), and no input interval is lost:
\* every resolvable input page is in exactly one interval of the map.
C24_VirtOffsetMapFused ==
    (pc = "export" /\ virtspace.err = "")
    => /\ \A j \in 1..Len(virtspace.v2o) : virtspace.v2o[j][1] < virtspace.v2o[j][2]
       /\ StrictlyOrdered(virtspace.v2o)
       /\ MaximallyFusedOffsets(virtspace.v2o)
       /\ \A i \in InputLeaves(virtspace) : LeafKept(elf_dump, virtspace, i)

\* a map of two intervals, the first fused from two leaves
C24_Witness ==
    /\ pc = "export"
    /\ virtspace.err = ""
    /\ Len(virtspace.v2o) = 2
    /\ \E i, k \in InputLeaves(virtspace) :
          /\ i # k
          /\ Holding(virtspace.v2o, virtspace.mapping[i].virt) = {1}
          /\ Holding(virtspace.v2o, virtspace.mapping[k].virt) = {1}

\* ------------------------------------------------------------------------
\* C25
\* ------------------------------------------------------------------------
\* the file range [off, off + n) is inside the file range of one RAM
\* interval of the dump
InOneRamInterval(phy, off, n) ==
    \E k \in 1..Len(phy.o2p) : phy.o2p[k][1] <= off /\ off + n <= phy.o2p[k][2]

\* C25: for every interval (v_start, v_end, file_offset) of the V->O map the
\* file range [file_offset, file_offset + (v_end - v_start)) lies inside the
\* file range of a single RAM interval of the dump, also when two RAM
\* regions that are not next to each other in memory are stored back to
\* back in the dump file.
C25_VirtOffsetInOneRamInterval ==
    (pc = "export" /\ virtspace.err = "")
    => \A j \in 1..Len(virtspace.v2o) :
          InOneRamInterval(elf_dump, virtspace.v2o[j][3],
                           virtspace.v2o[j][2] - virtspace.v2o[j][1])

\* ------------------------------------------------------------------------
\* C26
\* ------------------------------------------------------------------------
\* C26: each compaction routine is idempotent on sorted input: applied to a
\* non-empty list that is already its own output, _compact_intervals_simple,
\* _compact_intervals and the fusion by permissions return the list
\* unchanged, and one pass gives what two passes give.
C26_CompactionIdempotent ==
    pc = "compacted"
    => /\ log[1].once.err = ""
       /\ log[1].twice = log[1].once
       /\ (log[1].once.list = log[1].input => log[1].twice.list = log[1].input)

\* three intervals of which _compact_intervals_simple fuses the first two
C26_Witness ==
    /\ pc = "compacted"
    /\ log[1].op = "_compact_intervals_simple"
    /\ log[1].input = << <<0, 1>>, <<1, 2>>, <<2, 3>> >>
    /\ log[1].once.list = << <<0, 3>> >>
    /\ log[1].twice.list = << <<0, 3>> >>

\* ------------------------------------------------------------------------
\* C27
\* ------------------------------------------------------------------------
\* a dump with RAM segments and no segment of the device space
NoDeviceSegment(segms) == \A i \in 1..Len(segms) : IsRam(segms[i])

\* C27: the compaction routines take an empty list and return an empty
\* list; the load of a dump with RAM LOAD segments and no device segment
\* (an empty device list) ends without an error, and in_mmd is then False
\* at every address.
C27_LoadWithoutDevices ==
    (pc \in {"loaded", "crashed"} /\ NoDeviceSegment(args.segms))
    => /\ _compact_intervals_simple(p2mmd_list(args.segms)) = [err |-> "", list |-> <<>>]
       /\ elf_dump.err = ""
       /\ \A paddr \in 0..20 : ~in_mmd(elf_dump, paddr, 1)

\* ------------------------------------------------------------------------
\* C28
\* ------------------------------------------------------------------------
\* how often n is in the list res
CountIn(res, n) == Cardinality({i \in 1..Len(res) : res[i] = n})

\* how often n is in the multiset {v + (x - l) : l <= x < r, v in vs}
CountExpected(intervals, x, n) ==
    Cardinality({ij \in (1..Len(intervals)) \X (1..2) :
                    /\ ij[2] <= Len(intervals[ij[1]][3])
                    /\ intervals[ij[1]][1] <= x
                    /\ x < intervals[ij[1]][2]
                    /\ intervals[ij[1]][3][ij[2]] + (x - intervals[ij[1]][1]) = n})

LookupIsMultiset ==
    \A n \in 0..(30 + MaxCoord + 1) :
        CountIn(log[2].result, n) = CountExpected(args.intervals, args.x, n)

\* C28: an IMOverlapping built from any list of intervals (l, r, vs) with
\* l < r, which may overlap, nest and share the same value tuple, answers a
\* lookup at x with exactly the multiset {v + (x - l) : l <= x < r, v in vs},
\* empty when x is in no interval.
C28_LookupMultiset ==
    /\ pc # "raised"
    /\ pc = "answered" => LookupIsMultiset

\* the value tuples of the list differ from one another
DistinctValues(intervals) ==
    \A i, j \in 1..Len(intervals) : i # j => intervals[i][3] # intervals[j][3]

\* what holds of the maps built from intervals with distinct value tuples
C28_DistinctLookupMultiset ==
    DistinctValues(args.intervals)
    => /\ pc # "raised"
       /\ pc = "answered" => LookupIsMultiset

\* ------------------------------------------------------------------------
\* C29
\* ------------------------------------------------------------------------
\* the calls on the stack are at the levels 0, 1, ... and none is at a
\* level the class does not have
DepthBounded ==
    /\ Len(log) <= total_levels(args.t.cls)
    /\ idx <= total_levels(args.t.cls)
    /\ \A k \in 1..Len(log) : log[k].lvl = k - 1

\* every valid entry of a table of the last level decodes to a leaf whose
\* page size is 1 << shifts[lvl]
LastLevelLeaves(f) ==
    LET table == TableOf(f)
    IN  (f.lvl = total_levels(args.t.cls) - 1 /\ table.err = "")
        => \A i \in 1..Len(table.data) :
              LET e == _read_entry(args.t, i - 1,
                                   iter_unpack(unpack_fmt(args.t.cls),
                                               StoredBytes(elf_dump, table.data[i])),
                                   f.lvl)
              IN  e.valid => (e.size = Pow2(shifts(args.t.cls, f.lvl)) /\ e.size > 0)

WalkBounded ==
    pc = "walk" => (DepthBounded /\ \A k \in 1..Len(log) : LastLevelLeaves(log[k]))

\* C29: the walk ends for every content of the dump and every base, tables
\* that point to themselves or to one another included: a call for level
\* lvl calls only for level lvl + 1 and only when lvl < total_levels - 1,
\* every entry of the last level is a leaf with page_size = 1 << shifts[lvl]
\* > 0, and the calls are never nested deeper than total_levels.
C29_WalkTerminates == []WalkBounded /\ <>(pc \in {"walked", "raised"})

\* a walk that went down to the last level through a table whose first
\* entry points to the table itself, and ended
C29_Witness ==
    /\ pc = "walked"
    /\ args.t.cls = "IntelAMD64"
    /\ args.t.dtb = 0
    /\ idx = total_levels(args.t.cls)
    /\ elf_dump.machine_data.Endianness = "little"
    /\ _read_entry(args.t, 0, get_data(elf_dump, 0, 1).data[1], 0).addr = 0

\* ------------------------------------------------------------------------
\* C30
\* ------------------------------------------------------------------------
\* the word a machine of the recorded byte order reads from the bytes
RecordedValue(phy, bytes) == from_bytes(bytes, word_fmt(phy))

\* the last entry the call f unpacked is the value of its bytes in the
\* recorded byte order
DecodedAsRecorded(f) ==
    f.index > 0
    => f.entry = RecordedValue(elf_dump, StoredBytes(elf_dump, TableOf(f).data[f.index]))

\* C30: the walk decodes every entry of a table in the byte order the
\* machine description records: the entries of a big-endian dump are read
\* as big-endian words.
C30_EntriesInRecordedByteOrder ==
    pc \in {"walk", "walked", "raised"}
    => \A k \in 1..Len(log) : DecodedAsRecorded(log[k])
====
